---- MODULE Spec2Model ----
(***************************************************************************)
(* python-urx: the secondary-interface monitor (urx/ursecmon.py) and the   *)
(* motion-completion wait of the robot front end (urx/robot.py).           *)
(*                                                                         *)
(* Threads: "main" runs SecondaryMonitor.__init__, "mon" is the monitor    *)
(* thread (SecondaryMonitor.run), the members of Apps are application      *)
(* threads calling sendProgram / cleanup, "waiter" is the thread inside    *)
(* URRobot.wait_for_move (the joint-space _wait_for_move of URRobot or the *)
(* Cartesian one of Robot).  The methods of ParserUtils are also modelled  *)
(* on their own, on buffers of bytes (SpecParser), parse is also taken     *)
(* byte by byte inside run() (SpecParse), and SpecStop runs the monitor    *)
(* with _get_data step by step next to threads that call cleanup().        *)
(*                                                                         *)
(* A frame is what _get_data hands to parse: one envelope (type 16) whose  *)
(* content is a sequence of sub-packets.  A sub-packet is a record         *)
(* [ptype, ok, body]; ok = FALSE stands for a sub-packet whose bytes make  *)
(* analyze_header or _get_data raise ParsingException.                     *)
(***************************************************************************)
EXTENDS Integers, Sequences, FiniteSets, TLC

\* ------------------------------------------------------------- bounds
\* robotMode is an unsigned byte; the model draws it from 0..MaxMode.
MaxMode == 1
\* Number of sendProgram calls the application threads make in one run.
MaxCmds == 2
\* Number of cleanup() calls the application threads make in one run.
MaxStops == 2

\* ------------------------------------------------------ program constants
\* range(3) in _wait_for_move: publishes consumed before anything is evaluated.
StabCycles == 3
\* joinEpsilon = 0.01 rad, in units of 0.001 rad.
joinEpsilon == 10
\* number of joints compared by the joint-space wait: range(0, 6).
NJoints == 6

\* ------------------------------------------------------------- inputs
\* The blending radius the Cartesian moves are called with (mm).
BlendRadius == 2
\* The longest run of garbage bytes in front of an envelope.
MaxGarbage == 4
\* The largest array size a size field announces.
MaxArray == 3

\* The largest number of sub-packets in an envelope handed to parse.
MaxSubs == 2

Apps == {"app1", "app2"}

VARIABLES
    mon_pc,           \* position of the monitor thread in run()
    ctor_pc,          \* position of the constructing thread in __init__
    data,             \* run(): the frame returned by _get_data (<<>> outside)
    dict,             \* self._dict
    dictLock,         \* holder of self._dictLock, or "free"
    prog_queue,       \* self._prog_queue
    prog_queue_lock,  \* holder of self._prog_queue_lock, or "free"
    trystop,          \* self._trystop
    running,          \* self.running
    s_secondary,      \* state of the socket self._s_secondary: "open" | "closed"
    app_pc,           \* position of each application thread
    app_prog,         \* the prog argument of the sendProgram call in progress
    \* history (ghost) variables
    enqueued,         \* commands in the order they were appended to the queue
    sent,             \* commands in the order they were written to the socket
    issued,           \* number of sendProgram calls started
    stops,            \* number of cleanup calls started
    stopsReturned,    \* number of cleanup calls that returned
    closeCalls,       \* number of close() calls made on the socket
    fdCloses,         \* number of times the socket actually went open -> closed
    ioOnClosed,       \* the monitor thread used the socket after it was closed
    published,        \* run() has reached the publish at line 247 at least once
    seenCats,         \* categories that have been present in self._dict so far
    ga_copy,          \* what getAllData last returned: <<>> before any call, <<copy>> after
    dataqueue,        \* _dataqueue: the bytes received and not yet returned as a frame
    \* the thread inside URRobot.movej / wait_for_move
    w_pc,             \* its position
    w_i,              \* _wait_for_move: completed iterations of the range(3) loop
    w_woken,          \* it is blocked in secmon.wait() and a publish has woken it
    w_jts,            \* jts: <<>> for None, <<record>> for a JointData record
    w_ipr,            \* what is_program_running() returned: "unset", "true", "false"
    w_exc,            \* the exception raised inside _wait_for_move, or "none"
    w_propagated,     \* the exception wait_for_move raised to its caller, or "none"
    w_pubs,           \* history: publishes since wait_for_move was invoked, up to StabCycles
    w_kind,           \* which _wait_for_move runs: "none", "joint" (URRobot), "cart" (Robot)
    w_prim,           \* the move primitive that called wait_for_move, "none" before a move
    w_radius,         \* the radius argument of the wait
    w_dist,           \* Robot._wait_for_move: dist, -1 before it is computed
    w_run,            \* what is_running() returned in this iteration: "unset", "true", "false"
    env,              \* what the controller reports: "free", "unreached", "stopped", "busy"
    \* a call of a ParserUtils method on its own
    p_pc,             \* "off" (no call), "call" (about to run), "done"
    p_fn,             \* the method called
    p_data,           \* its data argument: a sequence of bytes
    p_fmt,            \* _get_data: the layout (fmt and names), "none" otherwise
    p_out,            \* what the call returned or raised
    p_parts           \* history: the pieces the data argument was built from

vars == <<mon_pc, ctor_pc, data, dict, dictLock, prog_queue, prog_queue_lock,
          trystop, running, s_secondary, app_pc, app_prog, enqueued, sent,
          issued, stops, stopsReturned, closeCalls, fdCloses, ioOnClosed,
          published, seenCats, ga_copy, dataqueue,
          w_pc, w_i, w_woken, w_jts, w_ipr, w_exc,
          w_propagated, w_pubs, w_kind, w_prim, w_radius, w_dist, w_run, env,
          p_pc, p_fn, p_data, p_fmt, p_out, p_parts>>

cvars == <<w_kind, w_prim, w_radius, w_dist, w_run>>

wvars == <<w_pc, w_i, w_woken, w_jts, w_ipr, w_exc, w_propagated, w_pubs, cvars>>

pvars == <<p_pc, p_fn, p_data, p_fmt, p_out, p_parts>>

\* ------------------------------------------------------------- data
RobotModeRecords ==
    [isRobotConnected: BOOLEAN, isRealRobotEnabled: BOOLEAN,
     isPowerOnRobot: BOOLEAN, isEmergencyStopped: BOOLEAN,
     isSecurityStopped: BOOLEAN, isProgramRunning: BOOLEAN,
     robotMode: 0..MaxMode]

\* ParserUtils.parse: the category a sub-packet type is stored under.
Category(ptype) ==
    CASE ptype = 0 -> "RobotModeData"
      [] ptype = 1 -> "JointData"
      [] ptype = 4 -> "CartesianInfo"
      [] OTHER     -> "unknown"

\* The envelope header record parse stores for the type-16 packet itself.
EnvelopeRecord == [type |-> 16]

\* The outcome of a parse call: it raised ParsingException, or it returned
\* the dictionary allData.
Raised == [raised |-> TRUE, allData |-> <<>>]
Returned(d) == [raised |-> FALSE, allData |-> d]

\* A parse that returns what it decoded before the malformed sub-packet.
RECURSIVE parseFromPartial(_, _)
parseFromPartial(subs, allData) ==
    IF subs = <<>> THEN Returned(allData)
    ELSE LET p == Head(subs) IN
         IF ~p.ok THEN Returned(allData)
         ELSE IF Category(p.ptype) = "unknown" THEN parseFromPartial(Tail(subs), allData)
         ELSE parseFromPartial(Tail(subs),
                  [c \in DOMAIN allData \cup {Category(p.ptype)} |->
                      IF c = Category(p.ptype) THEN p.body ELSE allData[c]])

\* ParserUtils.parse on the content of an envelope: walk the sub-packets in
\* order; a malformed one raises (the whole call yields no dictionary), a
\* known type stores its record under its category (a later record of the
\* same category replaces an earlier one), an unknown type is skipped.
RECURSIVE parseFrom(_, _)
parseFrom(subs, allData) ==
    IF subs = <<>> THEN Returned(allData)
    ELSE LET p == Head(subs) IN
         IF ~p.ok THEN Raised
         ELSE IF Category(p.ptype) = "unknown" THEN parseFrom(Tail(subs), allData)
         ELSE parseFrom(Tail(subs),
                  [c \in DOMAIN allData \cup {Category(p.ptype)} |->
                      IF c = Category(p.ptype) THEN p.body ELSE allData[c]])

\* Line 44-46: the envelope itself is stored as SecondaryClientData, then
\* its content is parsed.
parse(frame) ==
    parseFrom(frame, [c \in {"SecondaryClientData"} |-> EnvelopeRecord])

\* A running predicate that forgets the security stop.
RunningIgnoresSecurityStop(rmd) ==
    /\ rmd.robotMode = 0
    /\ rmd.isRealRobotEnabled = TRUE
    /\ rmd.isEmergencyStopped = FALSE
    /\ rmd.isRobotConnected = TRUE
    /\ rmd.isPowerOnRobot = TRUE

\* The running predicate of run(), lines 236-241.
RunningPredicate(rmd) ==
    /\ rmd.robotMode = 0
    /\ rmd.isRealRobotEnabled = TRUE
    /\ rmd.isEmergencyStopped = FALSE
    /\ rmd.isSecurityStopped = FALSE
    /\ rmd.isRobotConnected = TRUE
    /\ rmd.isPowerOnRobot = TRUE

\* ------------------------------------------------------------- inputs
\* A JointData record: for each joint its q_actual and q_target (0.001 rad).
JointRecord(d) == [i \in 1..NJoints |-> [q_actual |-> d[i], q_target |-> 0]]

Diffs(i, v) == [k \in 1..NJoints |-> IF k = i THEN v ELSE 0]

\* All joints on target; the last joint below its target by exactly
\* epsilon; the second joint above its target by half of epsilon; the first
\* joint above its target by more than epsilon.
JointInputs ==
    { JointRecord(Diffs(1, 0)),
      JointRecord(Diffs(NJoints, 0 - joinEpsilon)),
      JointRecord(Diffs(2, joinEpsilon \div 2)),
      JointRecord(Diffs(1, joinEpsilon + 1)) }

Healthy ==
    [isRobotConnected |-> TRUE, isRealRobotEnabled |-> TRUE,
     isPowerOnRobot |-> TRUE, isEmergencyStopped |-> FALSE,
     isSecurityStopped |-> FALSE, isProgramRunning |-> FALSE, robotMode |-> 0]

Pose == [X |-> 1, Y |-> 2, Z |-> 3, Rx |-> 0, Ry |-> 0, Rz |-> 0]

\* The target pose of the Cartesian moves, and the identity transform.
Target == Pose
Identity == [X |-> 0, Y |-> 0, Z |-> 0, Rx |-> 0, Ry |-> 0, Rz |-> 0]

\* The controller's pose at the given distance from the target.
PoseAt(d) == [Target EXCEPT !.X = Target.X + d]

\* Poses on the target, inside the blending radius, at exactly the blending
\* radius, and outside it.
PoseInputs == { PoseAt(0), PoseAt(BlendRadius - 1), PoseAt(BlendRadius), PoseAt(BlendRadius + 1) }
FarPoses == { PoseAt(BlendRadius + 1) }

Sub(t, b) == [ptype |-> t, ok |-> TRUE, body |-> b]
BadSub == [ptype |-> 0, ok |-> FALSE, body |-> "short"]
UnknownSub == [ptype |-> 9, ok |-> TRUE, body |-> "?"]

EmergencyStopped == [Healthy EXCEPT !.isEmergencyStopped = TRUE]

\* The frames the controller sends in the monitor model: envelopes that are
\* empty, carry RobotModeData (healthy or emergency-stopped), carry no
\* RobotModeData, carry an unknown sub-packet, or carry a malformed
\* sub-packet (alone, or after a good one).
FramesMon ==
    { <<>>, <<UnknownSub>>, <<BadSub>>, <<Sub(0, Healthy), BadSub>>,
      <<Sub(0, Healthy)>>, <<Sub(0, EmergencyStopped)>>,
      <<Sub(1, JointRecord(Diffs(1, 0)))>>,
      <<Sub(4, Pose)>>,
      <<Sub(0, Healthy), Sub(1, JointRecord(Diffs(1, 0)))>> }

\* The frames of the cycle model: every RobotModeData record alone, and an
\* envelope without one.
FramesCycle ==
    { <<Sub(0, r)>> : r \in RobotModeRecords } \cup { <<>>, <<BadSub>> }

\* run() holds no frame.
NoData == <<>>
Free == "free"
EmptyDict == [c \in {} |-> 0]

\* ------------------------------------------------- SecondaryMonitor.__init__
\* Lines 179-195: the fields are set and the thread is started.
CtorStart ==
    /\ ctor_pc = "init"
    /\ mon_pc = "notstarted"
    /\ mon_pc' = "top"
    /\ ctor_pc' = "wait"
    /\ UNCHANGED <<ga_copy, dataqueue, pvars, wvars, env, data, dict, dictLock, prog_queue, prog_queue_lock, trystop,
                   running, s_secondary, app_pc, app_prog, enqueued, sent,
                   issued, stops, stopsReturned, closeCalls, fdCloses,
                   ioOnClosed, published, seenCats>>

\* Line 196: self._dataEvent.wait() is called without the condition's lock
\* held; threading.Condition.wait then raises RuntimeError ("cannot wait on
\* un-acquired lock") and __init__ ends with that exception.
CtorWait ==
    /\ ctor_pc = "wait"
    /\ ctor_pc' = "raised"
    /\ UNCHANGED <<ga_copy, dataqueue, pvars, wvars, env, mon_pc, data, dict, dictLock, prog_queue, prog_queue_lock,
                   trystop, running, s_secondary, app_pc, app_prog, enqueued,
                   sent, issued, stops, stopsReturned, closeCalls, fdCloses,
                   ioOnClosed, published, seenCats>>

\* ------------------------------------------------- SecondaryMonitor.run
\* Line 218: while not self._trystop.
MonLoopTest ==
    /\ mon_pc = "top"
    /\ mon_pc' = IF trystop THEN "exited" ELSE "queue_lock"
    /\ UNCHANGED <<ga_copy, dataqueue, pvars, wvars, env, ctor_pc, data, dict, dictLock, prog_queue, prog_queue_lock,
                   trystop, running, s_secondary, app_pc, app_prog, enqueued,
                   sent, issued, stops, stopsReturned, closeCalls, fdCloses,
                   ioOnClosed, published, seenCats>>

\* Line 219: with self._prog_queue_lock (acquire).
MonAcquireQueueLock ==
    /\ mon_pc = "queue_lock"
    /\ prog_queue_lock = Free
    /\ prog_queue_lock' = "mon"
    /\ mon_pc' = "send"
    /\ UNCHANGED <<ga_copy, dataqueue, pvars, wvars, env, ctor_pc, data, dict, dictLock, prog_queue, trystop, running,
                   s_secondary, app_pc, app_prog, enqueued, sent, issued, stops,
                   stopsReturned, closeCalls, fdCloses, ioOnClosed, published, seenCats>>

\* A run() that takes the newest command: pop().
PopNewest(q) == Len(q)

\* The command run() takes: pop(0), the oldest.
PopIndex(q) == 1

Without(q, i) == [k \in 1..(Len(q) - 1) |-> IF k < i THEN q[k] ELSE q[k + 1]]

\* A run() that keeps the queue lock while it receives and decodes (the
\* rest of the loop body nested in the with statement).
QueueLockKept == "mon"

\* Line 222, the end of the with block: the queue lock is released before
\* _get_data is called.
QueueLockAfterSend == Free

\* Lines 220-222 and the release of the lock: if the queue is non-empty the
\* oldest command is popped and written; writing to a closed socket raises
\* and ends the thread (the with statement still releases the lock).
MonSend ==
    /\ mon_pc = "send"
    /\ prog_queue_lock = "mon"
    /\ prog_queue_lock' = IF Len(prog_queue) > 0 /\ s_secondary # "open"
                          THEN Free ELSE QueueLockAfterSend
    /\ IF Len(prog_queue) > 0
       THEN /\ prog_queue' = Without(prog_queue, PopIndex(prog_queue))
            /\ IF s_secondary = "open"
               THEN /\ sent' = Append(sent, prog_queue[PopIndex(prog_queue)])
                    /\ mon_pc' = "getdata"
                    /\ UNCHANGED ioOnClosed
               ELSE /\ mon_pc' = "dead"
                    /\ ioOnClosed' = TRUE
                    /\ UNCHANGED sent
       ELSE /\ mon_pc' = "getdata"
            /\ UNCHANGED <<prog_queue, sent, ioOnClosed>>
    /\ UNCHANGED <<ga_copy, dataqueue, pvars, wvars, env, ctor_pc, data, dict, dictLock, trystop, running, s_secondary,
                   app_pc, app_prog, enqueued, issued, stops, stopsReturned,
                   closeCalls, fdCloses, published, seenCats>>

\* Line 222 when the write fails (network error, not caught): the command
\* was popped, nothing is written, the thread ends.
MonSendFail ==
    /\ mon_pc = "send"
    /\ prog_queue_lock = "mon"
    /\ Len(prog_queue) > 0
    /\ prog_queue' = Without(prog_queue, PopIndex(prog_queue))
    /\ prog_queue_lock' = Free
    /\ mon_pc' = "dead"
    /\ ioOnClosed' = (ioOnClosed \/ s_secondary = "closed")
    /\ UNCHANGED <<ga_copy, dataqueue, pvars, wvars, env, ctor_pc, data, dict, dictLock, trystop, running, s_secondary,
                   app_pc, app_prog, enqueued, sent, issued, stops,
                   stopsReturned, closeCalls, fdCloses, published, seenCats>>

\* Lines 224, 249-260: _get_data returns the next envelope found in the
\* stream (F: the envelopes the controller may send).
MonGetData(F) ==
    /\ mon_pc = "getdata"
    /\ s_secondary = "open"
    /\ \E f \in F : data' = f
    /\ mon_pc' = "dict_lock"
    /\ UNCHANGED <<ga_copy, dataqueue, pvars, wvars, env, ctor_pc, dict, dictLock, prog_queue, prog_queue_lock, trystop,
                   running, s_secondary, app_pc, app_prog, enqueued, sent,
                   issued, stops, stopsReturned, closeCalls, fdCloses,
                   ioOnClosed, published, seenCats>>

\* Line 259: recv raises (the 0.5 s socket timeout of line 187, a network
\* error, a closed socket); nothing in run() catches it and the thread ends.
MonRecvFail ==
    /\ mon_pc = "getdata"
    /\ mon_pc' = "dead"
    /\ ioOnClosed' = (ioOnClosed \/ s_secondary = "closed")
    /\ UNCHANGED <<ga_copy, dataqueue, pvars, wvars, env, ctor_pc, data, dict, dictLock, prog_queue, prog_queue_lock,
                   trystop, running, s_secondary, app_pc, app_prog, enqueued,
                   sent, issued, stops, stopsReturned, closeCalls, fdCloses,
                   published, seenCats>>

\* Line 226: with self._dictLock (acquire).
MonAcquireDictLock ==
    /\ mon_pc = "dict_lock"
    /\ dictLock = Free
    /\ dictLock' = "mon"
    /\ mon_pc' = "parse"
    /\ UNCHANGED <<ga_copy, dataqueue, pvars, wvars, env, ctor_pc, data, dict, prog_queue, prog_queue_lock, trystop,
                   running, s_secondary, app_pc, app_prog, enqueued, sent,
                   issued, stops, stopsReturned, closeCalls, fdCloses,
                   ioOnClosed, published, seenCats>>

\* A run() that merges the new records into the old dictionary.
StoreMerged(old, new) ==
    [c \in DOMAIN old \cup DOMAIN new |-> IF c \in DOMAIN new THEN new[c] ELSE old[c]]

\* Line 227: what run() stores in self._dict after a successful parse.
StoreParsed(old, new) == new

\* Lines 225-228: self._dict = self._parser.parse(data) under the lock; a
\* ParsingException leaves self._dict as it was, the with statement
\* releases the lock and the handler of line 228 is entered.
MonParse ==
    /\ mon_pc = "parse"
    /\ dictLock = "mon"
    /\ dictLock' = Free
    /\ data' = NoData
    /\ IF parse(data).raised
       THEN /\ mon_pc' = "except"
            /\ UNCHANGED <<dict, seenCats>>
       ELSE /\ dict' = StoreParsed(dict, parse(data).allData)
            /\ seenCats' = seenCats \cup DOMAIN dict'
            /\ mon_pc' = "check"
    /\ UNCHANGED <<ga_copy, dataqueue, pvars, wvars, env, ctor_pc, prog_queue, prog_queue_lock, trystop, running,
                   s_secondary, app_pc, app_prog, enqueued, sent, issued, stops,
                   stopsReturned, closeCalls, fdCloses, ioOnClosed, published>>

\* Lines 228-230: except ParsingException: the frame is logged and dropped,
\* continue.
MonExcept ==
    /\ mon_pc = "except"
    /\ mon_pc' = "top"
    /\ UNCHANGED <<ga_copy, dataqueue, pvars, wvars, env, ctor_pc, data, dict, dictLock, prog_queue,
                   prog_queue_lock, trystop, running, s_secondary, app_pc,
                   app_prog, enqueued, sent, issued, stops, stopsReturned,
                   closeCalls, fdCloses, ioOnClosed, published, seenCats>>

\* A cycle without RobotModeData that clears the running flag.
ClearedWithoutModeData(old) == FALSE

\* Lines 232-234: a cycle without RobotModeData logs and continues; the
\* running flag keeps the value it had.
RunningWithoutModeData(old) == old

\* Lines 232-246: without RobotModeData the cycle ends here; with it the
\* running flag is set from the record.
MonUpdateRunning ==
    /\ mon_pc = "check"
    /\ IF "RobotModeData" \notin DOMAIN dict
       THEN /\ mon_pc' = "top"
            /\ running' = RunningWithoutModeData(running)
       ELSE /\ running' = RunningPredicate(dict["RobotModeData"])
            /\ mon_pc' = "notify"
    /\ UNCHANGED <<ga_copy, dataqueue, pvars, wvars, env, ctor_pc, data, dict, dictLock, prog_queue, prog_queue_lock,
                   trystop, s_secondary, app_pc, app_prog, enqueued, sent,
                   issued, stops, stopsReturned, closeCalls, fdCloses,
                   ioOnClosed, published, seenCats>>

\* Line 247: self._dataEvent.notifyAll() is called without the condition's
\* lock held; threading.Condition.notify_all then raises RuntimeError
\* ("cannot notify on un-acquired lock"), which run() does not catch: the
\* thread ends.
MonNotify ==
    /\ mon_pc = "notify"
    /\ mon_pc' = "dead"
    /\ published' = TRUE
    /\ UNCHANGED <<ga_copy, dataqueue, pvars, wvars, env, ctor_pc, data, dict, dictLock, prog_queue, prog_queue_lock,
                   trystop, running, s_secondary, app_pc, app_prog, enqueued,
                   sent, issued, stops, stopsReturned, closeCalls, fdCloses,
                   ioOnClosed, seenCats>>

\* ------------------------------------------------- SecondaryMonitor.sendProgram
\* An application thread calls sendProgram(prog); the commands are numbered
\* in the order of the calls so that each is distinct.
AppCallSend(a) ==
    /\ app_pc[a] = "idle"
    /\ ctor_pc # "init"
    /\ issued < MaxCmds
    /\ issued' = issued + 1
    /\ app_prog' = [app_prog EXCEPT ![a] = issued + 1]
    /\ app_pc' = [app_pc EXCEPT ![a] = "sp_lock"]
    /\ UNCHANGED <<ga_copy, dataqueue, pvars, wvars, env, mon_pc, ctor_pc, data, dict, dictLock, prog_queue,
                   prog_queue_lock, trystop, running, s_secondary, enqueued,
                   sent, stops, stopsReturned, closeCalls, fdCloses, ioOnClosed,
                   published, seenCats>>

\* Line 203: with self._prog_queue_lock (acquire).
AppSendAcquire(a) ==
    /\ app_pc[a] = "sp_lock"
    /\ prog_queue_lock = Free
    /\ prog_queue_lock' = a
    /\ app_pc' = [app_pc EXCEPT ![a] = "sp_append"]
    /\ UNCHANGED <<ga_copy, dataqueue, pvars, wvars, env, mon_pc, ctor_pc, data, dict, dictLock, prog_queue, trystop,
                   running, s_secondary, app_prog, enqueued, sent, issued, stops,
                   stopsReturned, closeCalls, fdCloses, ioOnClosed, published, seenCats>>

\* Lines 204-206: the command is appended at the tail; the lock is released.
AppSendAppend(a) ==
    /\ app_pc[a] = "sp_append"
    /\ prog_queue_lock = a
    /\ prog_queue' = Append(prog_queue, app_prog[a])
    /\ enqueued' = Append(enqueued, app_prog[a])
    /\ prog_queue_lock' = Free
    /\ app_prog' = [app_prog EXCEPT ![a] = 0]
    /\ app_pc' = [app_pc EXCEPT ![a] = "idle"]
    /\ UNCHANGED <<ga_copy, dataqueue, pvars, wvars, env, mon_pc, ctor_pc, data, dict, dictLock, trystop, running,
                   s_secondary, sent, issued, stops, stopsReturned, closeCalls,
                   fdCloses, ioOnClosed, published, seenCats>>

\* ------------------------------------------------- SecondaryMonitor.getAllData
\* An application thread calls getAllData().
AppCallGet(a) ==
    /\ app_pc[a] = "idle"
    /\ ctor_pc # "init"
    /\ app_pc' = [app_pc EXCEPT ![a] = "ga_lock"]
    /\ UNCHANGED <<ga_copy, dataqueue, pvars, wvars, env, mon_pc, ctor_pc, data, dict, dictLock,
                   prog_queue, prog_queue_lock, trystop, running, s_secondary,
                   app_prog, enqueued, sent, issued, stops, stopsReturned,
                   closeCalls, fdCloses, ioOnClosed, published, seenCats>>

\* Line 273: with self._dictLock (acquire).
AppGetAcquire(a) ==
    /\ app_pc[a] = "ga_lock"
    /\ dictLock = Free
    /\ dictLock' = a
    /\ app_pc' = [app_pc EXCEPT ![a] = "ga_read"]
    /\ UNCHANGED <<ga_copy, dataqueue, pvars, wvars, env, mon_pc, ctor_pc, data, dict, prog_queue,
                   prog_queue_lock, trystop, running, s_secondary, app_prog,
                   enqueued, sent, issued, stops, stopsReturned, closeCalls,
                   fdCloses, ioOnClosed, published, seenCats>>

\* A copy that leaves the envelope record out.
CopyWithoutEnvelope(d) == [c \in DOMAIN d \ {"SecondaryClientData"} |-> d[c]]

\* Line 274: self._dict.copy(), a new dictionary with the same entries.
DictCopy(d) == d

\* Line 274: return self._dict.copy(); the lock is released.
AppGetRead(a) ==
    /\ app_pc[a] = "ga_read"
    /\ dictLock = a
    /\ dictLock' = Free
    /\ ga_copy' = <<DictCopy(dict)>>
    /\ app_pc' = [app_pc EXCEPT ![a] = "idle"]
    /\ UNCHANGED <<dataqueue, pvars, wvars, env, mon_pc, ctor_pc, data, dict, prog_queue,
                   prog_queue_lock, trystop, running, s_secondary, app_prog,
                   enqueued, sent, issued, stops, stopsReturned, closeCalls,
                   fdCloses, ioOnClosed, published, seenCats>>

\* ------------------------------------------------- SecondaryMonitor.cleanup
\* Line 294: self._trystop = True.
CleanupSetStop(a) ==
    /\ app_pc[a] = "idle"
    /\ ctor_pc # "init"
    /\ stops < MaxStops
    /\ stops' = stops + 1
    /\ trystop' = TRUE
    /\ app_pc' = [app_pc EXCEPT ![a] = "cl_join"]
    /\ UNCHANGED <<ga_copy, dataqueue, pvars, wvars, env, mon_pc, ctor_pc, data, dict, dictLock, prog_queue,
                   prog_queue_lock, running, s_secondary, app_prog, enqueued,
                   sent, issued, stopsReturned, closeCalls, fdCloses, ioOnClosed,
                   published, seenCats>>

\* A cleanup that does not wait for the thread.
JoinReturnsAtOnce == TRUE

\* Thread.join returns once the thread has ended (normally or by an exception).
JoinReturns == mon_pc \in {"exited", "dead"}

\* Line 295: self.join().
CleanupJoin(a) ==
    /\ app_pc[a] = "cl_join"
    /\ JoinReturns
    /\ app_pc' = [app_pc EXCEPT ![a] = "cl_lock"]
    /\ UNCHANGED <<ga_copy, dataqueue, pvars, wvars, env, mon_pc, ctor_pc, data, dict, dictLock, prog_queue,
                   prog_queue_lock, trystop, running, s_secondary, app_prog,
                   enqueued, sent, issued, stops, stopsReturned, closeCalls,
                   fdCloses, ioOnClosed, published, seenCats>>

\* Lines 296-297: self._s_secondary is a socket object (always true); with
\* self._prog_queue_lock (acquire).
CleanupAcquire(a) ==
    /\ app_pc[a] = "cl_lock"
    /\ prog_queue_lock = Free
    /\ prog_queue_lock' = a
    /\ app_pc' = [app_pc EXCEPT ![a] = "cl_close"]
    /\ UNCHANGED <<ga_copy, dataqueue, pvars, wvars, env, mon_pc, ctor_pc, data, dict, dictLock, prog_queue, trystop,
                   running, s_secondary, app_prog, enqueued, sent, issued, stops,
                   stopsReturned, closeCalls, fdCloses, ioOnClosed, published, seenCats>>

\* A cleanup that forgets the socket.
CleanupNeverCloses == FALSE

\* Whether cleanup calls close() on the socket (line 298: always).
CleanupCloses == TRUE

\* Line 298: self._s_secondary.close(), then the lock is released and
\* cleanup returns.  socket.close() on a socket that is already closed does
\* nothing and raises nothing.
CleanupClose(a) ==
    /\ app_pc[a] = "cl_close"
    /\ prog_queue_lock = a
    /\ IF CleanupCloses
       THEN /\ closeCalls' = closeCalls + 1
            /\ s_secondary' = "closed"
            /\ fdCloses' = IF s_secondary = "open" THEN fdCloses + 1 ELSE fdCloses
       ELSE UNCHANGED <<closeCalls, s_secondary, fdCloses>>
    /\ prog_queue_lock' = Free
    /\ stopsReturned' = stopsReturned + 1
    /\ app_pc' = [app_pc EXCEPT ![a] = "idle"]
    /\ UNCHANGED <<ga_copy, dataqueue, pvars, wvars, env, mon_pc, ctor_pc, data, dict, dictLock, prog_queue, trystop,
                   running, app_prog, enqueued, sent, issued, stops, ioOnClosed,
                   published, seenCats>>

\* ------------------------------------------------- the monitor as written
WaiterIdle ==
    /\ w_pc = "idle"
    /\ w_i = 0
    /\ w_woken = FALSE
    /\ w_jts = <<>>
    /\ w_ipr = "unset"
    /\ w_exc = "none"
    /\ w_propagated = "none"
    /\ w_pubs = 0
    /\ w_kind = "none"
    /\ w_prim = "none"
    /\ w_radius = 0
    /\ w_dist = 0 - 1
    /\ w_run = "unset"

\* No ParserUtils method is called on its own.
ParserOff ==
    /\ p_pc = "off"
    /\ p_fn = "none"
    /\ p_data = <<>>
    /\ p_fmt = "none"
    /\ p_out = [raised |-> FALSE, value |-> <<>>]
    /\ p_parts = [g |-> <<>>, e |-> <<>>, r |-> <<>>, cut |-> 0]

Init ==
    /\ mon_pc = "notstarted"
    /\ ctor_pc = "init"
    /\ data = NoData
    /\ dict = EmptyDict
    /\ dictLock = Free
    /\ prog_queue = <<>>
    /\ prog_queue_lock = Free
    /\ trystop = FALSE
    /\ running = FALSE
    /\ s_secondary = "open"
    /\ app_pc = [a \in Apps |-> "idle"]
    /\ app_prog = [a \in Apps |-> 0]
    /\ enqueued = <<>>
    /\ sent = <<>>
    /\ issued = 0
    /\ stops = 0
    /\ stopsReturned = 0
    /\ closeCalls = 0
    /\ fdCloses = 0
    /\ ioOnClosed = FALSE
    /\ published = FALSE
    /\ seenCats = {}
    /\ ga_copy = <<>>
    /\ dataqueue = <<>>
    /\ WaiterIdle
    /\ ParserOff
    /\ env = "free"

MonGetDataMon == MonGetData(FramesMon)

Next ==
    \/ CtorStart
    \/ CtorWait
    \/ MonLoopTest
    \/ MonAcquireQueueLock
    \/ MonSend
    \/ MonSendFail
    \/ MonGetDataMon
    \/ MonRecvFail
    \/ MonAcquireDictLock
    \/ MonParse
    \/ MonExcept
    \/ MonUpdateRunning
    \/ MonNotify
    \/ \E a \in Apps : AppCallSend(a)
    \/ \E a \in Apps : AppSendAcquire(a)
    \/ \E a \in Apps : AppSendAppend(a)
    \/ \E a \in Apps : AppCallGet(a)
    \/ \E a \in Apps : AppGetAcquire(a)
    \/ \E a \in Apps : AppGetRead(a)
    \/ \E a \in Apps : CleanupSetStop(a)
    \/ \E a \in Apps : CleanupJoin(a)
    \/ \E a \in Apps : CleanupAcquire(a)
    \/ \E a \in Apps : CleanupClose(a)

Spec == Init /\ [][Next]_vars

\* ------------------------------------------------- the cycle alone
\* The constructor and the monitor thread, without application threads,
\* against every RobotModeData record.
MonGetDataCycle == MonGetData(FramesCycle)

NextCycle ==
    \/ CtorStart
    \/ CtorWait
    \/ MonLoopTest
    \/ MonAcquireQueueLock
    \/ MonSend
    \/ MonGetDataCycle
    \/ MonRecvFail
    \/ MonAcquireDictLock
    \/ MonParse
    \/ MonExcept
    \/ MonUpdateRunning
    \/ MonNotify

SpecCycle == Init /\ [][NextCycle]_vars

\* ------------------------------------------------- the wait of robot.py
\* robot.py calls the monitor through wait(), running, get_joint_data(wait),
\* is_program_running() and send_program(); ursecmon.py has sendProgram,
\* getJointData and isProgramRunning under their older names and no wait().
\* wait() and the wake-up a publish gives are modelled from the description
\* of await_update: the caller is suspended until the next publish.
MonVarsButPc ==
    <<ctor_pc, data, dict, dictLock, prog_queue, prog_queue_lock, trystop,
      running, s_secondary, app_pc, app_prog, enqueued, sent, issued, stops,
      stopsReturned, closeCalls, fdCloses, ioOnClosed, seenCats>>

AppVars ==
    <<ctor_pc, trystop, s_secondary, app_pc, app_prog, issued, stops,
      stopsReturned, closeCalls, fdCloses, ioOnClosed, seenCats, published>>

Inc(n, cap) == IF n < cap THEN n + 1 ELSE n

Waiting == w_pc \in {"stab_blocked", "jts_blocked", "pose_blocked"}

InWait == w_pc \notin {"idle", "returned", "raised"}

\* The publish of a monitor whose wait() works: every thread blocked in
\* wait() is woken, and the cycle goes on.
MonNotifyWake ==
    /\ mon_pc = "notify"
    /\ mon_pc' = "top"
    /\ published' = TRUE
    /\ w_woken' = (w_woken \/ Waiting)
    /\ w_pubs' = IF InWait THEN Inc(w_pubs, StabCycles) ELSE w_pubs
    /\ UNCHANGED <<ga_copy, dataqueue, pvars, cvars, MonVarsButPc, env, w_pc, w_i, w_jts, w_ipr, w_exc,
                   w_propagated>>

UnreachedJoints ==
    { JointRecord(Diffs(1, joinEpsilon + 1)),
      JointRecord(Diffs(NJoints, 0 - joinEpsilon - 1)) }

WaitModes ==
    { Healthy, [Healthy EXCEPT !.isProgramRunning = TRUE],
      EmergencyStopped, [EmergencyStopped EXCEPT !.isProgramRunning = TRUE] }

\* Frames in which the target is not reached: a JointData that is off
\* target and a pose outside every radius, with a RobotModeData among M.
FramesUnreached(M) ==
    { <<Sub(0, r), Sub(1, j), Sub(4, p)>> :
          r \in M, j \in UnreachedJoints, p \in FarPoses }

\* What the controller sends while env = e.  "free": any frame with or
\* without JointData and RobotModeData, and malformed ones.  "cart": any
\* frame with or without CartesianInfo and RobotModeData, and malformed
\* ones.  "unreached": every frame has RobotModeData, a JointData that is
\* off target and a pose that is off target, or is malformed.  "stopped":
\* every frame is as the well-formed ones of "unreached",
\* and the robot is emergency-stopped.  "busy": as "unreached", and the
\* robot is healthy and reports a program running.
FramesWait(e) ==
    IF e = "free"
    THEN { <<Sub(0, r), Sub(1, j)>> : r \in WaitModes, j \in JointInputs }
         \cup { <<Sub(0, Healthy)>>, <<Sub(1, JointRecord(Diffs(1, 0)))>>,
                <<Sub(0, Healthy), BadSub>> }
    ELSE IF e = "cart"
    THEN { <<Sub(0, r), Sub(4, p)>> : r \in WaitModes, p \in PoseInputs }
         \cup { <<Sub(0, Healthy)>>, <<Sub(4, Pose)>>, <<Sub(0, Healthy), BadSub>> }
    ELSE IF e = "unreached"
    THEN FramesUnreached(WaitModes) \cup { <<Sub(0, Healthy), BadSub>> }
    ELSE IF e = "stopped"
    THEN FramesUnreached({m \in WaitModes : m.isEmergencyStopped})
    ELSE FramesUnreached({[Healthy EXCEPT !.isProgramRunning = TRUE]})

NextEnv(e) == IF e = "unreached" THEN {"unreached", "stopped"} ELSE {e}

\* Lines 224, 249-260 again, the controller choosing what it reports.
MonGetDataWait ==
    /\ mon_pc = "getdata"
    /\ s_secondary = "open"
    /\ \E e \in NextEnv(env) : \E f \in FramesWait(e) :
          /\ env' = e
          /\ data' = f
    /\ mon_pc' = "dict_lock"
    /\ UNCHANGED <<ga_copy, dataqueue, pvars, wvars, ctor_pc, dict, dictLock, prog_queue, prog_queue_lock,
                   trystop, running, s_secondary, app_pc, app_prog, enqueued,
                   sent, issued, stops, stopsReturned, closeCalls, fdCloses,
                   ioOnClosed, published, seenCats>>

Abs(x) == IF x < 0 THEN 0 - x ELSE x

Str(b) == IF b THEN "true" ELSE "false"

\* The target argument that reaches _wait_for_move.  movej passes its joint
\* vector (robot.py line 268), which Robot._wait_for_move turns into a
\* transform (line 617): the joint targets of the model are all 0, the
\* identity.  The Cartesian primitives pass their pose (lines 288, 308, 333,
\* 360).
WaitTarget(prim) == IF prim = "movej" THEN Identity ELSE Target

\* What pose.dist(target) computes (math3d): the distance between two poses,
\* position and orientation combined.  The poses of the model differ from
\* the target in one coordinate, where the distance is the absolute
\* difference of that coordinate.
Dist(pose, target) ==
    Abs(pose.X - target.X) + Abs(pose.Y - target.Y) + Abs(pose.Z - target.Z)
        + Abs(pose.Rx - target.Rx) + Abs(pose.Ry - target.Ry)
        + Abs(pose.Rz - target.Rz)

\* A Cartesian test that lost its "not".
CartMoveEndedWhileRunning(dist, radius, programRunning) ==
    dist < radius \/ programRunning

\* A Cartesian test that accepts a distance equal to the radius.
CartMoveEndedInclusive(dist, radius, programRunning) ==
    dist <= radius \/ ~programRunning

\* robot.py line 623: (dist < radius) or not self.secmon.is_program_running().
CartMoveEnded(dist, radius, programRunning) ==
    dist < radius \/ ~programRunning

\* A comparison that also rejects a difference of exactly joinEpsilon.
FinishedStrict(jts) ==
    \A i \in 1..NJoints : ~(Abs(jts[i].q_actual - jts[i].q_target) >= joinEpsilon)

\* robot.py lines 214-220: finished stays True unless some joint differs
\* from its target by more than joinEpsilon.
Finished(jts) ==
    \A i \in 1..NJoints : ~(Abs(jts[i].q_actual - jts[i].q_target) > joinEpsilon)

\* A wait that returns as soon as the joints are on target.
MoveEndedIgnoresProgram(finished, programRunning) == finished

\* robot.py line 221: finished and not self.secmon.is_program_running().
MoveEnded(finished, programRunning) == finished /\ ~programRunning

\* A stabilization loop that is one iteration short.
StabilizationShort(i) == i >= StabCycles - 1

\* robot.py line 208: for _ in range(3).
StabilizationDone(i) == i >= StabCycles

\* A wait that never looks at the running flag.
NeverStopped(r) == FALSE

\* robot.py line 211: if not self.is_running().
RobotStopped(r) == ~r

\* A handler that only re-raises.
HandlerSkipsStop == FALSE

\* robot.py lines 200-202: the handler calls self.stopj().
HandlerStops == TRUE

\* robot.py lines 263-268 (movej with wait=True): the program is handed to
\* send_program (ursecmon.py lines 203-206: appended under the queue lock),
\* then wait_for_move is invoked.
WMovej ==
    /\ w_pc = "idle"
    /\ prog_queue_lock = Free
    /\ prog_queue' = Append(prog_queue, "movej")
    /\ enqueued' = Append(enqueued, "movej")
    /\ w_pc' = "stab"
    /\ w_i' = 0
    /\ w_pubs' = 0
    /\ w_kind' = "joint"
    /\ w_prim' = "movej"
    /\ w_radius' = 0
    /\ UNCHANGED <<ga_copy, dataqueue, pvars, w_dist, w_run, mon_pc, data, dict, dictLock,
                   prog_queue_lock, running, sent, AppVars, env, w_woken, w_jts,
                   w_ipr, w_exc, w_propagated>>

\* The radius arguments of the Cartesian moves: the default 0, and a
\* blending radius.
Radii == {0, BlendRadius}

\* robot.py lines 553-561, 478-495 and 271-286 (Robot.movel with wait=True):
\* the program is handed to send_program, then wait_for_move(radius, target)
\* is invoked; _wait_for_move is the one of lines 611-625.
WMovel ==
    /\ w_pc = "idle"
    /\ prog_queue_lock = Free
    /\ prog_queue' = Append(prog_queue, "movel")
    /\ enqueued' = Append(enqueued, "movel")
    /\ w_pc' = "stab"
    /\ w_i' = 0
    /\ w_pubs' = 0
    /\ w_kind' = "cart"
    /\ w_prim' = "movel"
    /\ \E r \in Radii : w_radius' = r
    /\ UNCHANGED <<ga_copy, dataqueue, pvars, w_dist, w_run, mon_pc, data, dict, dictLock,
                   prog_queue_lock, running, sent, AppVars, env, w_woken, w_jts,
                   w_ipr, w_exc, w_propagated>>

\* robot.py lines 208-209: the next iteration of the range(3) loop calls
\* secmon.wait(), or the loop is over.
WStabEnter ==
    /\ w_pc = "stab"
    /\ IF StabilizationDone(w_i)
       THEN w_pc' = "check_running" /\ UNCHANGED w_woken
       ELSE w_pc' = "stab_blocked" /\ w_woken' = FALSE
    /\ UNCHANGED <<ga_copy, dataqueue, pvars, cvars, mon_pc, MonVarsButPc, published, env, w_i, w_jts, w_ipr,
                   w_exc, w_propagated, w_pubs>>

\* secmon.wait() returns: a publish has woken the thread.
WStabWake ==
    /\ w_pc = "stab_blocked"
    /\ w_woken
    /\ w_woken' = FALSE
    /\ w_i' = w_i + 1
    /\ w_pc' = "stab"
    /\ UNCHANGED <<ga_copy, dataqueue, pvars, cvars, mon_pc, MonVarsButPc, published, env, w_jts, w_ipr, w_exc,
                   w_propagated, w_pubs>>

\* robot.py lines 211-212 and 618-619.
WCheckRunning ==
    /\ w_pc = "check_running"
    /\ w_run' = Str(running)
    /\ IF RobotStopped(running)
       THEN w_exc' = "RobotStopped" /\ w_pc' = "catch"
       ELSE /\ w_pc' = IF w_kind = "cart" THEN "pose_enter" ELSE "jts_enter"
            /\ UNCHANGED w_exc
    /\ UNCHANGED <<ga_copy, dataqueue, pvars, w_kind, w_prim, w_radius, w_dist, mon_pc, MonVarsButPc, published, env, w_i, w_woken, w_jts,
                   w_ipr, w_propagated, w_pubs>>

\* robot.py line 213, get_joint_data(wait=True): first wait().
WJtsEnter ==
    /\ w_pc = "jts_enter"
    /\ w_pc' = "jts_blocked"
    /\ w_woken' = FALSE
    /\ UNCHANGED <<ga_copy, dataqueue, pvars, cvars, mon_pc, MonVarsButPc, published, env, w_i, w_jts, w_ipr,
                   w_exc, w_propagated, w_pubs>>

WJtsWake ==
    /\ w_pc = "jts_blocked"
    /\ w_woken
    /\ w_woken' = FALSE
    /\ w_pc' = "jts_lock"
    /\ UNCHANGED <<ga_copy, dataqueue, pvars, cvars, mon_pc, MonVarsButPc, published, env, w_i, w_jts, w_ipr,
                   w_exc, w_propagated, w_pubs>>

\* ursecmon.py line 278: with self._dictLock (acquire).
WJtsAcquire ==
    /\ w_pc = "jts_lock"
    /\ dictLock = Free
    /\ dictLock' = "waiter"
    /\ w_pc' = "jts_read"
    /\ UNCHANGED <<ga_copy, dataqueue, pvars, cvars, mon_pc, data, dict, prog_queue, prog_queue_lock, running,
                   enqueued, sent, AppVars, env, w_i, w_woken, w_jts, w_ipr,
                   w_exc, w_propagated, w_pubs>>

\* ursecmon.py lines 279-282: the JointData record, or None.
WJtsRead ==
    /\ w_pc = "jts_read"
    /\ dictLock = "waiter"
    /\ dictLock' = Free
    /\ w_jts' = IF "JointData" \in DOMAIN dict THEN <<dict["JointData"]>> ELSE <<>>
    /\ w_pc' = "eval"
    /\ UNCHANGED <<ga_copy, dataqueue, pvars, cvars, mon_pc, data, dict, prog_queue, prog_queue_lock, running,
                   enqueued, sent, AppVars, env, w_i, w_woken, w_ipr, w_exc,
                   w_propagated, w_pubs>>

\* robot.py lines 214-221: subscripting None raises TypeError; otherwise
\* the joints are compared, and is_program_running() is called only when
\* finished is True.
WEval ==
    /\ w_pc = "eval"
    /\ IF w_jts = <<>>
       THEN w_exc' = "TypeError" /\ w_pc' = "catch"
       ELSE /\ UNCHANGED w_exc
            /\ w_pc' = IF Finished(w_jts[1]) THEN "ipr_lock" ELSE "check_running"
    /\ UNCHANGED <<ga_copy, dataqueue, pvars, cvars, mon_pc, MonVarsButPc, published, env, w_i, w_woken, w_jts,
                   w_ipr, w_propagated, w_pubs>>

\* ursecmon.py line 289: with self._dictLock (acquire).
WIprAcquire ==
    /\ w_pc = "ipr_lock"
    /\ dictLock = Free
    /\ dictLock' = "waiter"
    /\ w_pc' = "ipr_read"
    /\ UNCHANGED <<ga_copy, dataqueue, pvars, cvars, mon_pc, data, dict, prog_queue, prog_queue_lock, running,
                   enqueued, sent, AppVars, env, w_i, w_woken, w_jts, w_ipr,
                   w_exc, w_propagated, w_pubs>>

\* ursecmon.py line 290 and robot.py lines 221-223, 623-625: the flag is read from
\* the RobotModeData record (KeyError when the snapshot has none); the wait
\* returns when the move has ended and loops otherwise.
WIprRead ==
    /\ w_pc = "ipr_read"
    /\ dictLock = "waiter"
    /\ dictLock' = Free
    /\ IF "RobotModeData" \notin DOMAIN dict
       THEN w_exc' = "KeyError" /\ w_pc' = "catch" /\ UNCHANGED w_ipr
       ELSE /\ w_ipr' = Str(dict["RobotModeData"].isProgramRunning)
            /\ w_pc' = IF (IF w_kind = "cart"
                           THEN CartMoveEnded(w_dist, w_radius,
                                    dict["RobotModeData"].isProgramRunning)
                           ELSE MoveEnded(TRUE, dict["RobotModeData"].isProgramRunning))
                       THEN "returned" ELSE "check_running"
            /\ UNCHANGED w_exc
    /\ UNCHANGED <<ga_copy, dataqueue, pvars, cvars, mon_pc, data, dict, prog_queue, prog_queue_lock, running,
                   enqueued, sent, AppVars, env, w_i, w_woken, w_jts,
                   w_propagated, w_pubs>>

\* robot.py line 620, get_pose(wait=True) -> getl(wait) ->
\* get_cartesian_info(wait=True): first wait().
WPoseEnter ==
    /\ w_pc = "pose_enter"
    /\ w_pc' = "pose_blocked"
    /\ w_woken' = FALSE
    /\ UNCHANGED <<ga_copy, dataqueue, pvars, cvars, mon_pc, MonVarsButPc, published, env, w_i,
                   w_jts, w_ipr, w_exc, w_propagated, w_pubs>>

WPoseWake ==
    /\ w_pc = "pose_blocked"
    /\ w_woken
    /\ w_woken' = FALSE
    /\ w_pc' = "pose_lock"
    /\ UNCHANGED <<ga_copy, dataqueue, pvars, cvars, mon_pc, MonVarsButPc, published, env, w_i,
                   w_jts, w_ipr, w_exc, w_propagated, w_pubs>>

\* ursecmon.py line 263: with self._dictLock (acquire).
WPoseAcquire ==
    /\ w_pc = "pose_lock"
    /\ dictLock = Free
    /\ dictLock' = "waiter"
    /\ w_pc' = "pose_read"
    /\ UNCHANGED <<ga_copy, dataqueue, pvars, cvars, mon_pc, data, dict, prog_queue,
                   prog_queue_lock, running, enqueued, sent, AppVars, env, w_i,
                   w_woken, w_jts, w_ipr, w_exc, w_propagated, w_pubs>>

\* ursecmon.py lines 264-267, robot.py lines 315-318, 516-519 and 621: the
\* CartesianInfo record becomes a pose and dist is its distance to the
\* target.  Without a record getl returns None and math3d's Transform(None)
\* either raises or yields the identity transform.
WPoseRead ==
    /\ w_pc = "pose_read"
    /\ dictLock = "waiter"
    /\ dictLock' = Free
    /\ IF "CartesianInfo" \in DOMAIN dict
       THEN /\ w_dist' = Dist(dict["CartesianInfo"], WaitTarget(w_prim))
            /\ w_pc' = "pose_eval"
            /\ UNCHANGED w_exc
       ELSE \/ /\ w_exc' = "Error"
               /\ w_pc' = "catch"
               /\ UNCHANGED w_dist
            \/ /\ w_dist' = Dist(Identity, WaitTarget(w_prim))
               /\ w_pc' = "pose_eval"
               /\ UNCHANGED w_exc
    /\ UNCHANGED <<ga_copy, dataqueue, pvars, w_kind, w_prim, w_radius, w_run, mon_pc, data, dict,
                   prog_queue, prog_queue_lock, running, enqueued, sent, AppVars,
                   env, w_i, w_woken, w_jts, w_ipr, w_propagated, w_pubs>>

\* robot.py line 623, the left operand of "or": with dist < radius the wait
\* returns without asking whether a program is running.
WCartEval ==
    /\ w_pc = "pose_eval"
    /\ w_pc' = IF CartMoveEnded(w_dist, w_radius, TRUE) THEN "returned" ELSE "ipr_lock"
    /\ UNCHANGED <<ga_copy, dataqueue, pvars, cvars, mon_pc, MonVarsButPc, published, env, w_i,
                   w_woken, w_jts, w_ipr, w_exc, w_propagated, w_pubs>>

\* robot.py lines 200-203: except Exception as ex: self.stopj(); raise(ex).
WCatch ==
    /\ w_pc = "catch"
    /\ IF HandlerStops
       THEN w_pc' = "stopj_lock" /\ UNCHANGED w_propagated
       ELSE w_pc' = "raised" /\ w_propagated' = w_exc
    /\ UNCHANGED <<ga_copy, dataqueue, pvars, cvars, mon_pc, MonVarsButPc, published, env, w_i, w_woken, w_jts,
                   w_ipr, w_exc, w_pubs>>

\* robot.py line 367 through send_program; ursecmon.py line 203 (acquire).
WStopjAcquire ==
    /\ w_pc = "stopj_lock"
    /\ prog_queue_lock = Free
    /\ prog_queue_lock' = "waiter"
    /\ w_pc' = "stopj_append"
    /\ UNCHANGED <<ga_copy, dataqueue, pvars, cvars, mon_pc, data, dict, dictLock, prog_queue, running, enqueued,
                   sent, AppVars, env, w_i, w_woken, w_jts, w_ipr, w_exc,
                   w_propagated, w_pubs>>

\* ursecmon.py lines 204-206, then robot.py line 203: raise(ex).
WStopjAppend ==
    /\ w_pc = "stopj_append"
    /\ prog_queue_lock = "waiter"
    /\ prog_queue_lock' = Free
    /\ prog_queue' = Append(prog_queue, "stopj")
    /\ enqueued' = Append(enqueued, "stopj")
    /\ w_propagated' = w_exc
    /\ w_pc' = "raised"
    /\ UNCHANGED <<ga_copy, dataqueue, pvars, cvars, mon_pc, data, dict, dictLock, running, sent, AppVars, env,
                   w_i, w_woken, w_jts, w_ipr, w_exc, w_pubs>>

\* The state after URRobot.__init__ against a monitor that has published:
\* the snapshot holds the last frame, the robot is at rest on its target.
InitWait ==
    /\ mon_pc = "top"
    /\ ctor_pc = "returned"
    /\ data = NoData
    /\ dict = parse(<<Sub(0, Healthy), Sub(1, JointRecord(Diffs(1, 0)))>>).allData
    /\ dictLock = Free
    /\ prog_queue = <<>>
    /\ prog_queue_lock = Free
    /\ trystop = FALSE
    /\ running = TRUE
    /\ s_secondary = "open"
    /\ app_pc = [a \in Apps |-> "idle"]
    /\ app_prog = [a \in Apps |-> 0]
    /\ enqueued = <<>>
    /\ sent = <<>>
    /\ issued = 0
    /\ stops = 0
    /\ stopsReturned = 0
    /\ closeCalls = 0
    /\ fdCloses = 0
    /\ ioOnClosed = FALSE
    /\ published = TRUE
    /\ seenCats = {"SecondaryClientData", "RobotModeData", "JointData"}
    /\ ga_copy = <<>>
    /\ dataqueue = <<>>
    /\ WaiterIdle
    /\ ParserOff
    /\ env \in {"free", "unreached"}

MonitorStep ==
    \/ MonLoopTest
    \/ MonAcquireQueueLock
    \/ MonSend
    \/ MonGetDataWait
    \/ MonAcquireDictLock
    \/ MonParse
    \/ MonExcept
    \/ MonUpdateRunning
    \/ MonNotifyWake

WaiterStep ==
    \/ WMovej
    \/ WStabEnter
    \/ WStabWake
    \/ WCheckRunning
    \/ WJtsEnter
    \/ WJtsWake
    \/ WJtsAcquire
    \/ WJtsRead
    \/ WEval
    \/ WIprAcquire
    \/ WIprRead
    \/ WCatch
    \/ WStopjAcquire
    \/ WStopjAppend

NextWait == MonitorStep \/ WaiterStep

SpecWait == InitWait /\ [][NextWait]_vars

\* The steps in which the waiting thread acquires a lock.
WaiterAcquire == WJtsAcquire \/ WIprAcquire \/ WPoseAcquire \/ WStopjAcquire

\* The monitor thread and the waiting thread are both scheduled, and the
\* controller keeps sending frames.  A lock the waiting thread asks for is
\* free again and again (the monitor holds each lock for a few statements
\* per cycle and then blocks in recv), and the thread then gets it.
SpecWaitLive ==
    /\ InitWait /\ [][NextWait]_vars
    /\ WF_vars(MonitorStep) /\ WF_vars(WaiterStep) /\ SF_vars(WaiterAcquire)

\* ------------------------------------------------- the wait of Robot
\* The steps only the Cartesian wait of lines 611-625 takes.
CartStep ==
    \/ WMovel
    \/ WPoseEnter
    \/ WPoseWake
    \/ WPoseAcquire
    \/ WPoseRead
    \/ WCartEval

\* The steps the two waits share: the stabilization loop, the running
\* check, is_program_running() and the handler of wait_for_move.
SharedWaitStep ==
    \/ WStabEnter
    \/ WStabWake
    \/ WCheckRunning
    \/ WIprAcquire
    \/ WIprRead
    \/ WCatch
    \/ WStopjAcquire
    \/ WStopjAppend

\* A Robot (math3d present) whose monitor has published; the application
\* calls movel and the controller reports any pose.
InitCart ==
    /\ mon_pc = "top"
    /\ ctor_pc = "returned"
    /\ data = NoData
    /\ dict = parse(<<Sub(0, Healthy), Sub(4, PoseAt(0))>>).allData
    /\ dictLock = Free
    /\ prog_queue = <<>>
    /\ prog_queue_lock = Free
    /\ trystop = FALSE
    /\ running = TRUE
    /\ s_secondary = "open"
    /\ app_pc = [a \in Apps |-> "idle"]
    /\ app_prog = [a \in Apps |-> 0]
    /\ enqueued = <<>>
    /\ sent = <<>>
    /\ issued = 0
    /\ stops = 0
    /\ stopsReturned = 0
    /\ closeCalls = 0
    /\ fdCloses = 0
    /\ ioOnClosed = FALSE
    /\ published = TRUE
    /\ seenCats = {"SecondaryClientData", "RobotModeData", "CartesianInfo"}
    /\ ga_copy = <<>>
    /\ dataqueue = <<>>
    /\ WaiterIdle
    /\ ParserOff
    /\ env = "cart"

NextCart == MonitorStep \/ SharedWaitStep \/ CartStep

SpecCart == InitCart /\ [][NextCart]_vars

\* ------------------------------------------------- a target never reached
\* Both waits against a controller that never reports the target reached:
\* it reports a healthy robot with a program running ("busy") or any
\* robot mode, later an emergency stop ("unreached", "stopped").
InitUnreached ==
    /\ mon_pc = "top"
    /\ ctor_pc = "returned"
    /\ data = NoData
    /\ dict = parse(<<Sub(0, Healthy), Sub(1, JointRecord(Diffs(1, 0))),
                      Sub(4, PoseAt(0))>>).allData
    /\ dictLock = Free
    /\ prog_queue = <<>>
    /\ prog_queue_lock = Free
    /\ trystop = FALSE
    /\ running = TRUE
    /\ s_secondary = "open"
    /\ app_pc = [a \in Apps |-> "idle"]
    /\ app_prog = [a \in Apps |-> 0]
    /\ enqueued = <<>>
    /\ sent = <<>>
    /\ issued = 0
    /\ stops = 0
    /\ stopsReturned = 0
    /\ closeCalls = 0
    /\ fdCloses = 0
    /\ ioOnClosed = FALSE
    /\ published = TRUE
    /\ seenCats = {"SecondaryClientData", "RobotModeData", "JointData",
                   "CartesianInfo"}
    /\ ga_copy = <<>>
    /\ dataqueue = <<>>
    /\ WaiterIdle
    /\ ParserOff
    /\ env \in {"busy", "unreached"}

NextUnreached == MonitorStep \/ WaiterStep \/ CartStep

SpecUnreached == InitUnreached /\ [][NextUnreached]_vars

\* ---------------------------------------------------------------------
\* The move primitives of both classes.

\* robot.py line 30 and line 410: the class of the robot object.
Classes == {"URRobot", "Robot"}

\* robot.py lines 252, 271, 291, 321, 336 (URRobot) and 553, 563, 576, 592
\* (Robot, which inherits movej): the primitives whose wait=True branch calls
\* self.wait_for_move.
Primitives == {"movej", "movel", "movep", "movec", "movels"}

\* robot.py line 199, self._wait_for_move(radius, target): the method the
\* class of self binds, lines 205-223 for a URRobot and the override of
\* lines 611-625 for a Robot.  The primitive has no part in it.
WaitForMoveOf(class, prim) == IF class = "Robot" THEN "cart" ELSE "joint"

\* robot.py line 360: movels waits with radius=0 whatever radius it was
\* given; the other primitives pass their radius argument on.
RadiusPassed(prim, radius) == IF prim = "movels" THEN 0 ELSE radius

\* robot.py lines 252-269, 271-289, 291-309, 321-334, 336-361 and the Robot
\* wrappers of lines 553-596: a primitive called with wait=True on an object
\* of the given class sends its program and calls self.wait_for_move.
WMove(class, prim) ==
    /\ w_pc = "idle"
    /\ prog_queue_lock = Free
    /\ prog_queue' = Append(prog_queue, prim)
    /\ enqueued' = Append(enqueued, prim)
    /\ w_pc' = "stab"
    /\ w_i' = 0
    /\ w_pubs' = 0
    /\ w_kind' = WaitForMoveOf(class, prim)
    /\ w_prim' = prim
    /\ \E r \in Radii : w_radius' = RadiusPassed(prim, r)
    /\ UNCHANGED <<ga_copy, dataqueue, pvars, w_dist, w_run, mon_pc, data, dict, dictLock,
                   prog_queue_lock, running, sent, AppVars, env, w_woken, w_jts,
                   w_ipr, w_exc, w_propagated>>

MoveStep == \E class \in Classes, prim \in Primitives : WMove(class, prim)

NextMoves == MonitorStep \/ WaiterStep \/ CartStep \/ MoveStep

SpecMoves == InitUnreached /\ [][NextMoves]_vars

\* ------------------------------------------------- ParserUtils on bytes
\* A buffer is a sequence of bytes (0..255).
Min(a, b) == IF a < b THEN a ELSE b
Max(a, b) == IF a > b THEN a ELSE b

\* Python slicing: where the index n falls in a sequence of length len.
PyIndex(n, len) == IF n < 0 THEN Max(len + n, 0) ELSE Min(n, len)

\* data[:n] and data[n:].
Prefix(seq, n) == SubSeq(seq, 1, PyIndex(n, Len(seq)))
Suffix(seq, n) == SubSeq(seq, PyIndex(n, Len(seq)) + 1, Len(seq))

\* struct.unpack("!i", b): a signed 32-bit big-endian integer.
Int32(b) ==
    (IF b[1] >= 128 THEN b[1] - 256 ELSE b[1]) * 16777216
        + b[2] * 65536 + b[3] * 256 + b[4]

\* Lines 133-134: struct.unpack("!iB", data[0:5]).
get_header(buf) == [psize |-> Int32(buf), ptype |-> buf[5]]

\* What a ParserUtils method raised (ParsingException) or returned.
ParsingException == [raised |-> TRUE, value |-> <<>>]
Result(v) == [raised |-> FALSE, value |-> v]

\* An analyze_header that rejects a packet filling the buffer exactly.
analyze_headerStrict(buf) ==
    IF ~(Len(buf) >= 5) THEN ParsingException
    ELSE LET h == get_header(buf) IN
         IF h.psize < 5 THEN ParsingException
         ELSE IF h.psize >= Len(buf) THEN ParsingException
         ELSE Result(<<h.psize, h.ptype, Prefix(buf, h.psize), Suffix(buf, h.psize)>>)

\* Lines 136-148.
analyze_header(buf) ==
    IF ~(Len(buf) >= 5) THEN ParsingException
    ELSE LET h == get_header(buf) IN
         IF h.psize < 5 THEN ParsingException
         ELSE IF h.psize > Len(buf) THEN ParsingException
         ELSE Result(<<h.psize, h.ptype, Prefix(buf, h.psize), Suffix(buf, h.psize)>>)

\* A remainder that loses the byte behind the frame.
FrameRestDropsByte(buf, psize) == Suffix(buf, psize + 1)

\* Line 165: data[psize:], what follows the frame.
FrameRest(buf, psize) == Suffix(buf, psize)

\* Lines 159-160: a rejected header drops one byte (data = data[1:]); the
\* statement does not touch counter.
CounterAfterSkip(counter) == counter

\* Lines 156-170, the loop of find_first_packet.  None is the empty tuple,
\* a packet the pair (packet, rest); counter is the local of line 155 and
\* logged tells whether the logger.info of line 163 ran.
RECURSIVE findFrom(_, _)
findFrom(buf, counter) ==
    IF Len(buf) >= 5
    THEN LET h == get_header(buf) IN
         IF h.psize < 5 \/ h.psize > 500 \/ h.ptype # 16
         THEN findFrom(Suffix(buf, 1), CounterAfterSkip(counter))
         ELSE IF Len(buf) > h.psize
         THEN [raised |-> FALSE,
               value |-> <<Prefix(buf, h.psize), FrameRest(buf, h.psize)>>,
               counter |-> counter, logged |-> (counter # 0)]
         ELSE [raised |-> FALSE, value |-> <<>>, counter |-> counter, logged |-> FALSE]
    ELSE [raised |-> FALSE, value |-> <<>>, counter |-> counter, logged |-> FALSE]

\* Lines 150-170: counter = 0, then the loop.
find_first_packet(buf) == findFrom(buf, 0)

\* SecondaryMonitor._get_data, lines 253-260: find_first_packet on a copy
\* of self._dataqueue; a packet is returned and its rest becomes the queue;
\* otherwise recv appends the next chunk of the stream and the loop goes
\* on.  stream is the sequence of chunks the controller sends before it
\* falls silent; recv on a silent controller raises socket.timeout (the
\* timeout of line 187), which _get_data passes on.
RECURSIVE mon_get_data(_, _)
mon_get_data(queue, stream) ==
    LET ans == find_first_packet(queue) IN
    IF ans.value # <<>>
    THEN [raised |-> FALSE, value |-> ans.value[1], dataqueue |-> ans.value[2]]
    ELSE IF stream = <<>>
    THEN [raised |-> TRUE, value |-> <<>>, dataqueue |-> queue]
    ELSE mon_get_data(queue \o Head(stream), Tail(stream))

\* struct.calcsize of one format character.
calcsize(f) ==
    CASE f \in {"B", "b", "?", "c"} -> 1
      [] f = "h" -> 2
      [] f \in {"i", "f"} -> 4
      [] f \in {"Q", "d"} -> 8

\* struct.unpack("!" + f, b)[0]: bytes, booleans and 32-bit integers by
\* value; the wider and the floating-point types are kept as their bytes.
unpack(f, b) ==
    CASE f = "B" -> b[1]
      [] f = "b" -> IF b[1] >= 128 THEN b[1] - 256 ELSE b[1]
      [] f = "?" -> b[1] # 0
      [] f = "i" -> Int32(b)
      [] OTHER -> b

\* The names of the layouts that end with "Size" (line 112).
SizeNames == {"projectNameSize", "titleSize", "FooSize"}

Put(d, name, v) == [n \in DOMAIN d \cup {name} |-> IF n = name THEN v ELSE d[n]]

\* Lines 102-131, the loop of _get_data: j indexes fmt and i indexes names,
\* both from 0 as in the code.
RECURSIVE getDataFrom(_, _, _, _, _, _)
RECURSIVE getDataBody(_, _, _, _, _, _)
getDataBody(tmpdata, fmt, names, j, i, d) ==
    IF ~(j < Len(fmt) /\ i < Len(names)) THEN Result(d)
    ELSE LET f == fmt[j + 1] IN
         IF f \in {" ", "!", ">", "<"}
         THEN getDataFrom(tmpdata, fmt, names, j + 1, i, d)
         ELSE IF f = "A"
         THEN IF j = Len(fmt) - 2
              THEN getDataFrom(<<>>, fmt, names, j + 2, i + 1,
                               Put(d, names[i + 1], tmpdata))
              ELSE LET asn == names[IF i = 0 THEN Len(names) ELSE i] IN
                   IF asn \notin SizeNames THEN ParsingException
                   ELSE getDataFrom(Suffix(tmpdata, d[asn]), fmt, names, j + 2, i + 1,
                                    Put(d, names[i + 1], Prefix(tmpdata, d[asn])))
         ELSE IF Len(tmpdata) < calcsize(f) THEN ParsingException
         ELSE getDataFrom(Suffix(tmpdata, calcsize(f)), fmt, names, j + 1, i + 1,
                          Put(d, names[i + 1], unpack(f, Prefix(tmpdata, calcsize(f)))))

\* Line 102, the head of an iteration: the loop variables hold values (each
\* is evaluated once, here, and not again at every use in the body).
getDataFrom(tmpdata, fmt, names, j, i, d) ==
    CHOOSE out \in { getDataBody(t, f, n, jj, ii, dd) :
                         t \in {tmpdata}, f \in {fmt}, n \in {names},
                         jj \in {j}, ii \in {i}, dd \in {d} } : TRUE

\* Lines 90-131.
_get_data(buf, fmt, names) == getDataFrom(buf, fmt, names, 0, 0, EmptyDict)

\* ------------------------------------------------- calls of ParserUtils
\* The 5-byte header of a packet of declared length len and type t.
Header(len, t) == <<0, 0, len \div 256, len % 256, t>>

Fill(n, b) == [k \in 1..n |-> b]

\* An envelope (type 16) of declared length len, its content filled with 7.
Envelope(len) == Header(len, 16) \o Fill(len - 5, 7)

GarbageBytes == {0, 16, 255}

RECURSIVE SeqsUpTo(_, _)
SeqsUpTo(S, n) ==
    IF n = 0 THEN {<<>>}
    ELSE LET shorter == SeqsUpTo(S, n - 1) IN
         shorter \cup {Append(q, b) : q \in shorter, b \in S}

\* The buffers handed to find_first_packet and analyze_header: garbage g,
\* then an envelope e with its last cut bytes missing, then (when e is
\* whole) what the stream holds after it: nothing, one byte, the header of
\* the next envelope.
Buffers ==
    { [g |-> g, e |-> Envelope(len), r |-> r, cut |-> 0] :
          g \in SeqsUpTo(GarbageBytes, MaxGarbage), len \in {5, 6, 16},
          r \in {<<>>, <<0>>, Header(5, 16)} }
    \cup
    { [g |-> g, e |-> Envelope(len), r |-> <<>>, cut |-> c] :
          g \in SeqsUpTo(GarbageBytes, 2), len \in {5, 6, 16}, c \in {1, 3} }

BufferOf(parts) ==
    parts.g \o SubSeq(parts.e, 1, Len(parts.e) - parts.cut) \o parts.r

NoParts == [g |-> <<>>, e |-> <<>>, r |-> <<>>, cut |-> 0]

\* What SecondaryMonitor._get_data works on: self._dataqueue holds garbage
\* g and an envelope e without its last cut bytes; the controller then
\* sends the missing bytes (when cut > 0) and r (when r is not empty), each
\* as one chunk, and falls silent.
Streams ==
    { [g |-> g, e |-> Envelope(len), r |-> r, cut |-> c] :
          g \in SeqsUpTo(GarbageBytes, 2), len \in {5, 6, 16},
          r \in {<<>>, <<0>>, Header(5, 16)}, c \in {0, 1, 3} }

QueueOf(parts) == parts.g \o SubSeq(parts.e, 1, Len(parts.e) - parts.cut)

StreamOf(parts) ==
    (IF parts.cut > 0
     THEN <<SubSeq(parts.e, Len(parts.e) - parts.cut + 1, Len(parts.e))>>
     ELSE <<>>)
    \o (IF parts.r # <<>> THEN <<parts.r>> ELSE <<>>)

\* Layouts of parse with an array that is not the last field: the
\* VersionMessage (line 68, scalars follow the array), the popupMessage
\* (line 74, the last array follows it), and the smallest layout of that
\* shape.  fixed: the bytes in front of the array; after: the bytes the
\* fields behind the array need.
Layouts ==
    { [name |-> "VersionMessage",
       fmt |-> <<"!", "i", "B", "Q", "b", "b", " ", "b", "A", "b", "B", "B", "i", "A", "b">>,
       names |-> <<"size", "type", "timestamp", "source", "robotMessageType",
                   "projectNameSize", "projectName", "majorVersion",
                   "minorVersion", "svnRevision", "buildDate">>,
       sizeName |-> "projectNameSize", arrayName |-> "projectName",
       fixed |-> 16, after |-> 6],
      [name |-> "popupMessage",
       fmt |-> <<"!", "i", "B", "Q", "b", "b", " ", "?", "?", "B", "A", "c", "A", "c">>,
       names |-> <<"size", "type", "timestamp", "source", "robotMessageType",
                   "warning", "error", "titleSize", "messageTitle", "messageText">>,
       sizeName |-> "titleSize", arrayName |-> "messageTitle",
       fixed |-> 18, after |-> 0],
      [name |-> "Foo",
       fmt |-> <<"B", "A", "c", "A", "c">>,
       names |-> <<"FooSize", "Foo", "Rest">>,
       sizeName |-> "FooSize", arrayName |-> "Foo",
       fixed |-> 1, after |-> 0] }

LayoutOf(name) == CHOOSE l \in Layouts : l.name = name

\* A body for a layout: the fields in front of the size field are zero,
\* the size field announces n bytes, and k bytes follow it.
Body(l, n, k) == Fill(l.fixed - 1, 0) \o <<n>> \o [x \in 1..k |-> 64 + x]

\* A ParserUtils method is about to be called on a buffer.
InitParser ==
    /\ mon_pc = "notstarted"
    /\ ctor_pc = "init"
    /\ data = NoData
    /\ dict = EmptyDict
    /\ dictLock = Free
    /\ prog_queue = <<>>
    /\ prog_queue_lock = Free
    /\ trystop = FALSE
    /\ running = FALSE
    /\ s_secondary = "open"
    /\ app_pc = [a \in Apps |-> "idle"]
    /\ app_prog = [a \in Apps |-> 0]
    /\ enqueued = <<>>
    /\ sent = <<>>
    /\ issued = 0
    /\ stops = 0
    /\ stopsReturned = 0
    /\ closeCalls = 0
    /\ fdCloses = 0
    /\ ioOnClosed = FALSE
    /\ published = FALSE
    /\ seenCats = {}
    /\ ga_copy = <<>>
    /\ dataqueue = <<>>
    /\ WaiterIdle
    /\ env = "free"
    /\ p_pc = "call"
    /\ p_out = [raised |-> FALSE, value |-> <<>>]
    /\ \/ /\ p_fn \in {"find_first_packet", "analyze_header"}
          /\ p_parts \in Buffers
          /\ p_data = BufferOf(p_parts)
          /\ p_fmt = "none"
       \/ /\ p_fn = "SecondaryMonitor._get_data"
          /\ p_parts \in Streams
          /\ p_data = QueueOf(p_parts)
          /\ p_fmt = "none"
       \/ /\ p_fn = "_get_data"
          /\ p_parts = NoParts
          /\ \E l \in Layouts, n \in 0..MaxArray, k \in 0..(MaxArray + 7) :
                /\ p_fmt = l.name
                /\ p_data = Body(l, n, k)

ParserReturns(out) ==
    /\ p_pc = "call"
    /\ p_pc' = "done"
    /\ p_out' = out
    /\ UNCHANGED <<ga_copy, dataqueue, p_fn, p_data, p_fmt, p_parts, mon_pc, MonVarsButPc,
                   published, wvars, env>>

CallFindFirstPacket ==
    /\ p_fn = "find_first_packet"
    /\ ParserReturns(find_first_packet(p_data))

CallAnalyzeHeader ==
    /\ p_fn = "analyze_header"
    /\ ParserReturns(analyze_header(p_data))

CallGetData ==
    /\ p_fn = "_get_data"
    /\ ParserReturns(_get_data(p_data, LayoutOf(p_fmt).fmt, LayoutOf(p_fmt).names))

CallMonGetData ==
    /\ p_fn = "SecondaryMonitor._get_data"
    /\ ParserReturns(mon_get_data(p_data, StreamOf(p_parts)))

NextParser == CallFindFirstPacket \/ CallAnalyzeHeader \/ CallGetData \/ CallMonGetData

SpecParser == InitParser /\ [][NextParser]_vars

\* ------------------------------------------------- ParserUtils.parse on bytes
\* Lines 47-63: the key, the format and the field names of the sub-packets
\* that carry robot state, by packet type.
StateLayout(ptype) ==
    CASE ptype = 0 ->
           [key |-> "RobotModeData",
            fmt |-> <<"!", "i", "B", "Q", "?", "?", "?", "?", "?", "?", "?",
                      "B", "d">>,
            names |-> <<"size", "type", "timestamp", "isRobotConnected",
                        "isRealRobotEnabled", "isPowerOnRobot",
                        "isEmergencyStopped", "isSecurityStopped",
                        "isProgramRunning", "isProgramPaused", "robotMode",
                        "speedFraction">>]
      [] ptype = 1 ->
           [key |-> "JointData",
            fmt |-> <<"!", "i", "B", " ", "d", "d", "d", "f", "f", "f", "f",
                      "B", " ", "d", "d", "d", "f", "f", "f", "f", "B", " ",
                      "d", "d", "d", "f", "f", "f", "f", "B", " ", "d", "d",
                      "d", "f", "f", "f", "f", "B", " ", "d", "d", "d", "f",
                      "f", "f", "f", "B", " ", "d", "d", "d", "f", "f", "f",
                      "f", "B">>,
            names |-> <<"size", "type", "q_actual0", "q_target0",
                        "qd_actual0", "I_actual0", "V_actual0", "T_motor0",
                        "T_micro0", "jointMode0", "q_actual1", "q_target1",
                        "qd_actual1", "I_actual1", "V_actual1", "T_motor1",
                        "T_micro1", "jointMode1", "q_actual2", "q_target2",
                        "qd_actual2", "I_actual2", "V_actual2", "T_motor2",
                        "T_micro2", "jointMode2", "q_actual3", "q_target3",
                        "qd_actual3", "I_actual3", "V_actual3", "T_motor3",
                        "T_micro3", "jointMode3", "q_actual4", "q_target4",
                        "qd_actual4", "I_actual4", "V_actual4", "T_motor4",
                        "T_micro4", "jointMode4", "q_actual5", "q_target5",
                        "qd_actual5", "I_actual5", "V_actual5", "T_motor5",
                        "T_micro5", "jointMode5">>]
      [] ptype = 4 ->
           [key |-> "CartesianInfo",
            fmt |-> <<"i", "B", "d", "d", "d", "d", "d", "d">>,
            names |-> <<"size", "type", "X", "Y", "Z", "Rx", "Ry", "Rz">>]
      [] ptype = 5 ->
           [key |-> "LaserPointer(OBSOLETE)",
            fmt |-> <<"i", "B", "d", "d", "d">>,
            names |-> <<"size", "type">>]
      [] ptype = 3 ->
           [key |-> "MasterBoardData",
            fmt |-> <<"i", "B", "h", "h", "b", "b", "d", "d", "b", "b", "d",
                      "d", "f", "f", "f", "f", "B", "B", "b">>,
            names |-> <<"size", "type", "digitalInputBits",
                        "digitalOutputBits", "analogInputRange0",
                        "analogInputRange1", "analogInput0", "analogInput1",
                        "analogInputDomain0", "analogInputDomain1",
                        "analogOutput0", "analogOutput1",
                        "masterBoardTemperature", "robotVoltage48V",
                        "robotCurrent", "masterIOCurrent">>]
      [] ptype = 2 ->
           [key |-> "ToolData",
            fmt |-> <<"i", "B", "b", "b", "d", "d", "f", "B", "f", "f",
                      "B">>,
            names |-> <<"size", "type", "analoginputRange2",
                        "analoginputRange3", "analogInput2", "analogInput3",
                        "toolVoltage48V", "toolOutputVoltage", "toolCurrent",
                        "toolTemperature", "toolMode">>]

StateTypes == {0, 1, 2, 3, 4, 5}

\* Lines 67-82: the same for a Message (type 20), by robotMessageType.
MessageLayout(robotMessageType) ==
    CASE robotMessageType = 3 ->
           [key |-> "VersionMessage",
            fmt |-> <<"!", "i", "B", "Q", "b", "b", " ", "b", "A", "b", "B",
                      "B", "i", "A", "b">>,
            names |-> <<"size", "type", "timestamp", "source",
                        "robotMessageType", "projectNameSize", "projectName",
                        "majorVersion", "minorVersion", "svnRevision",
                        "buildDate">>]
      [] robotMessageType = 6 ->
           [key |-> "robotCommMessage",
            fmt |-> <<"!", "i", "B", "Q", "b", "b", " ", "i", "i", "A",
                      "c">>,
            names |-> <<"size", "type", "timestamp", "source",
                        "robotMessageType", "code", "argument",
                        "messageText">>]
      [] robotMessageType = 1 ->
           [key |-> "labelMessage",
            fmt |-> <<"!", "i", "B", "Q", "b", "b", " ", "i", "A", "c">>,
            names |-> <<"size", "type", "timestamp", "source",
                        "robotMessageType", "id", "messageText">>]
      [] robotMessageType = 2 ->
           [key |-> "popupMessage",
            fmt |-> <<"!", "i", "B", "Q", "b", "b", " ", "?", "?", "B", "A",
                      "c", "A", "c">>,
            names |-> <<"size", "type", "timestamp", "source",
                        "robotMessageType", "warning", "error", "titleSize",
                        "messageTitle", "messageText">>]
      [] robotMessageType = 0 ->
           [key |-> "messageText",
            fmt |-> <<"!", "i", "B", "Q", "b", "b", " ", "A", "c">>,
            names |-> <<"size", "type", "timestamp", "source",
                        "robotMessageType", "messageText">>]
      [] robotMessageType = 8 ->
           [key |-> "varMessage",
            fmt |-> <<"!", "i", "B", "Q", "b", "b", " ", "i", "i", "B", "A",
                      "c", "A", "c">>,
            names |-> <<"size", "type", "timestamp", "source",
                        "robotMessageType", "code", "argument", "titleSize",
                        "messageTitle", "messageText">>]
      [] robotMessageType = 7 ->
           [key |-> "keyMessage",
            fmt |-> <<"!", "i", "B", "Q", "b", "b", " ", "i", "i", "B", "A",
                      "c", "A", "c">>,
            names |-> <<"size", "type", "timestamp", "source",
                        "robotMessageType", "code", "argument", "titleSize",
                        "messageTitle", "messageText">>]
      [] robotMessageType = 5 ->
           [key |-> "keyMessage",
            fmt |-> <<"!", "i", "B", "Q", "b", "b", " ", "i", "i", "A",
                      "c">>,
            names |-> <<"size", "type", "timestamp", "source",
                        "robotMessageType", "code", "argument",
                        "messageText">>]

MessageTypes == {0, 1, 2, 3, 5, 6, 7, 8}

\* Line 45: the layout of the envelope header.
EnvelopeLayout ==
    [key |-> "SecondaryClientData", fmt |-> <<"!", "i", "B">>,
     names |-> <<"size", "type">>]

\* Line 66: the layout of the head of a Message.
MessageHead ==
    [key |-> "tmp", fmt |-> <<"!", "i", "B", " ", "Q", "b", "b">>,
     names |-> <<"size", "type", "timestamp", "source", "robotMessageType">>]

\* What one iteration of the loop of parse leaves: it raised
\* ParsingException, or it goes on with the remaining data and allData.
IterRaised == [raised |-> TRUE, data |-> <<>>, allData |-> EmptyDict]
IterDone(rest, allData) == [raised |-> FALSE, data |-> rest, allData |-> allData]

\* allData[l.key] = self._get_data(pdata, l.fmt, l.names).
Stored(l, pdata, rest, allData) ==
    LET d == _get_data(pdata, l.fmt, l.names) IN
    IF d.raised THEN IterRaised
    ELSE IterDone(rest, Put(allData, l.key, d.value))

\* An envelope whose bytes are handed to the loop again as they are.
EnvelopeResent(pdata, rest) == pdata \o rest

\* Line 46: data = (pdata + data)[5:], the envelope without its header.
EnvelopeContent(pdata, rest) == Suffix(pdata \o rest, 5)

\* Lines 83-84: a Message with any other robotMessageType is printed and
\* nothing is stored.
MessageNotImplemented(tmp, rest, allData) == IterDone(rest, allData)

\* Lines 43-86: one iteration of the loop of parse.
parseStep(buf, allData) ==
    LET h == analyze_header(buf) IN
    IF h.raised THEN IterRaised
    ELSE LET psize == h.value[1]
             ptype == h.value[2]
             pdata == h.value[3]
             rest  == h.value[4]
         IN  IF ptype = 16
             THEN Stored(EnvelopeLayout, pdata, EnvelopeContent(pdata, rest), allData)
             ELSE IF ptype \in StateTypes
             THEN Stored(StateLayout(ptype), pdata, rest, allData)
             ELSE IF ptype = 20
             THEN LET tmp == _get_data(pdata, MessageHead.fmt, MessageHead.names) IN
                  IF tmp.raised THEN IterRaised
                  ELSE IF tmp.value["robotMessageType"] \in MessageTypes
                  THEN Stored(MessageLayout(tmp.value["robotMessageType"]),
                              pdata, rest, allData)
                  ELSE MessageNotImplemented(tmp.value, rest, allData)
             ELSE IterDone(rest, allData)

\* The sub-packets of the frames handed to parse, by kind: a RobotModeData
\* (29 bytes), one cut after 10 bytes, a LaserPointer of 5 bytes, a packet
\* of the unknown type 9, a Message with robotMessageType 0 (text), 4 and
\* -1 (no layout), one too short for its head, a header that declares 4
\* bytes, one that declares more than there is, 3 stray bytes, and an
\* empty envelope.
SubKinds ==
    {"mode", "modeShort", "laser", "unknown", "text", "msg4", "msgNeg",
     "msgShort", "tooSmall", "tooLong", "tail", "envelope"}

SubBytes(kind) ==
    CASE kind = "mode" ->
             Header(29, 0) \o Fill(8, 0) \o <<1, 1, 1, 0, 0, 0, 0>> \o <<0>> \o Fill(8, 0)
      [] kind = "modeShort" -> Header(10, 0) \o Fill(5, 0)
      [] kind = "laser" -> Header(5, 5)
      [] kind = "unknown" -> Header(6, 9) \o <<1>>
      [] kind = "text" -> Header(17, 20) \o Fill(8, 0) \o <<0, 0>> \o <<72, 105>>
      [] kind = "msg4" -> Header(16, 20) \o Fill(8, 0) \o <<0, 4>> \o <<9>>
      [] kind = "msgNeg" -> Header(15, 20) \o Fill(8, 0) \o <<0, 255>>
      [] kind = "msgShort" -> Header(7, 20) \o <<0, 0>>
      [] kind = "tooSmall" -> Header(4, 0)
      [] kind = "tooLong" -> Header(40, 0) \o <<1>>
      [] kind = "tail" -> <<1, 2, 3>>
      [] kind = "envelope" -> Header(5, 16)

RECURSIVE Concat(_)
Concat(kinds) ==
    IF kinds = <<>> THEN <<>> ELSE SubBytes(Head(kinds)) \o Concat(Tail(kinds))

\* The frame _get_data hands to parse: an envelope whose declared length is
\* the length of the whole frame.
FrameOf(kinds) == Header(5 + Len(Concat(kinds)), 16) \o Concat(kinds)

\* run() has taken self._dictLock (line 226) and calls parse on a frame.
InitParse ==
    /\ mon_pc = "parse"
    /\ ctor_pc = "wait"
    /\ data = NoData
    /\ dict = EmptyDict
    /\ dictLock = "mon"
    /\ prog_queue = <<>>
    /\ prog_queue_lock = Free
    /\ trystop = FALSE
    /\ running = FALSE
    /\ s_secondary = "open"
    /\ app_pc = [a \in Apps |-> "idle"]
    /\ app_prog = [a \in Apps |-> 0]
    /\ enqueued = <<>>
    /\ sent = <<>>
    /\ issued = 0
    /\ stops = 0
    /\ stopsReturned = 0
    /\ closeCalls = 0
    /\ fdCloses = 0
    /\ ioOnClosed = FALSE
    /\ published = FALSE
    /\ seenCats = {}
    /\ ga_copy = <<>>
    /\ dataqueue = <<>>
    /\ WaiterIdle
    /\ env = "free"
    /\ p_pc = "call"
    /\ p_fn = "parse"
    /\ p_fmt = "none"
    /\ p_out = Result(EmptyDict)
    /\ \E kinds \in SeqsUpTo(SubKinds, MaxSubs) :
          /\ p_parts = [subs |-> kinds]
          /\ p_data = FrameOf(kinds)

\* Lines 41-86: while data, one iteration.  p_data is the local data and
\* p_out.value the local allData.
ParseIter ==
    /\ p_fn = "parse"
    /\ p_pc = "call"
    /\ p_data # <<>>
    /\ LET r == parseStep(p_data, p_out.value) IN
       IF r.raised
       THEN /\ p_pc' = "raise"
            /\ p_out' = ParsingException
            /\ UNCHANGED p_data
       ELSE /\ p_data' = r.data
            /\ p_out' = Result(r.allData)
            /\ UNCHANGED p_pc
    /\ UNCHANGED <<ga_copy, dataqueue, p_fn, p_fmt, p_parts, mon_pc, MonVarsButPc,
                   published, wvars, env>>

\* Lines 41 and 88: data is empty, return allData.
ParseReturn ==
    /\ p_fn = "parse"
    /\ p_pc = "call"
    /\ p_data = <<>>
    /\ p_pc' = "return"
    /\ UNCHANGED <<ga_copy, dataqueue, p_fn, p_data, p_fmt, p_out, p_parts, mon_pc,
                   MonVarsButPc, published, wvars, env>>

\* Lines 226-228: parse has returned or raised in the with block of
\* run(); the result is stored (when there is one) and the lock released.
ParseRelease ==
    /\ p_fn = "parse"
    /\ p_pc \in {"return", "raise"}
    /\ mon_pc = "parse"
    /\ dictLock = "mon"
    /\ dictLock' = Free
    /\ p_pc' = "done"
    /\ IF p_pc = "return"
       THEN /\ dict' = StoreParsed(dict, p_out.value)
            /\ seenCats' = seenCats \cup DOMAIN dict'
            /\ mon_pc' = "check"
       ELSE /\ mon_pc' = "except"
            /\ UNCHANGED <<dict, seenCats>>
    /\ UNCHANGED <<ga_copy, dataqueue, p_fn, p_data, p_fmt, p_out, p_parts, wvars, env,
                   ctor_pc, data, prog_queue, prog_queue_lock, trystop,
                   running, s_secondary, app_pc, app_prog, enqueued, sent,
                   issued, stops, stopsReturned, closeCalls, fdCloses,
                   ioOnClosed, published>>

NextParse == ParseIter \/ ParseReturn \/ ParseRelease

\* The monitor thread, which runs parse, keeps being scheduled.
SpecParse == InitParse /\ [][NextParse]_vars /\ WF_vars(NextParse)

\* ------------------------------------------------- stop() and the running thread
\* The monitor thread with _get_data taken step by step (ursecmon.py lines
\* 249-260), the byte-level parse, and application threads that send
\* commands and call cleanup().

\* The most bytes the controller lets wait in _dataqueue.
MaxQueue == 12

\* Line 259: what a recv(1024) that returns may return: b'' (the peer has
\* closed the connection), a byte that belongs to no envelope, a whole
\* envelope that decodes, a whole envelope on which parse raises.
RecvReturns ==
    {<<>>, <<0>>, FrameOf(<<"laser">>), FrameOf(<<"tooSmall">>)}

\* Lines 253-257: find_first_packet on a copy of the queue; a frame is
\* returned to run() and the rest becomes the queue, otherwise recv is
\* called.  Nothing in the loop reads _trystop.
MonFindPacket ==
    /\ mon_pc = "getdata"
    /\ LET ans == find_first_packet(dataqueue) IN
       IF ans.value # <<>>
       THEN /\ data' = ans.value[1]
            /\ dataqueue' = ans.value[2]
            /\ mon_pc' = "dict_lock"
       ELSE /\ mon_pc' = "recv"
            /\ UNCHANGED <<data, dataqueue>>
    /\ UNCHANGED <<ga_copy, pvars, wvars, env, ctor_pc, dict, dictLock, prog_queue,
                   prog_queue_lock, trystop, running, s_secondary, app_pc,
                   app_prog, enqueued, sent, issued, stops, stopsReturned,
                   closeCalls, fdCloses, published, seenCats, ioOnClosed>>

\* Lines 259-260: recv returns and its bytes are appended to the queue; the
\* loop goes back to find_first_packet.
MonRecv ==
    /\ mon_pc = "recv"
    /\ s_secondary = "open"
    /\ \E tmp \in RecvReturns :
          /\ Len(dataqueue) + Len(tmp) <= MaxQueue
          /\ dataqueue' = dataqueue \o tmp
    /\ mon_pc' = "getdata"
    /\ UNCHANGED <<ga_copy, pvars, wvars, env, ctor_pc, dict, dictLock, prog_queue,
                   prog_queue_lock, trystop, running, s_secondary, app_pc,
                   app_prog, enqueued, sent, issued, stops, stopsReturned,
                   closeCalls, fdCloses, published, seenCats, ioOnClosed, data>>

\* Line 259: recv raises (the 0.5 s timeout of line 187, a network error);
\* nothing in run() catches it and the thread ends.
MonRecvRaise ==
    /\ mon_pc = "recv"
    /\ mon_pc' = "dead"
    /\ ioOnClosed' = (ioOnClosed \/ s_secondary = "closed")
    /\ UNCHANGED <<ga_copy, pvars, wvars, env, ctor_pc, dict, dictLock, prog_queue,
                   prog_queue_lock, trystop, running, s_secondary, app_pc,
                   app_prog, enqueued, sent, issued, stops, stopsReturned,
                   closeCalls, fdCloses, published, seenCats, data, dataqueue>>

\* Line 227: parse(data) is called with the lock held.
MonCallParse ==
    /\ mon_pc = "parse"
    /\ dictLock = "mon"
    /\ p_pc \in {"off", "done"}
    /\ p_fn' = "parse"
    /\ p_pc' = "call"
    /\ p_data' = data
    /\ p_out' = Result(EmptyDict)
    /\ UNCHANGED <<ga_copy, dataqueue, p_fmt, p_parts, mon_pc, MonVarsButPc,
                   published, wvars, env>>

\* The steps of the monitor thread.
MonStopStep ==
    \/ MonLoopTest
    \/ MonAcquireQueueLock
    \/ MonSend
    \/ MonSendFail
    \/ MonFindPacket
    \/ MonRecv
    \/ MonRecvRaise
    \/ MonAcquireDictLock
    \/ MonCallParse
    \/ ParseIter
    \/ ParseReturn
    \/ ParseRelease
    \/ MonExcept
    \/ MonUpdateRunning

\* The steps of an application thread inside sendProgram and cleanup.
AppStopStep(a) ==
    \/ AppSendAcquire(a)
    \/ AppSendAppend(a)
    \/ CleanupJoin(a)
    \/ CleanupAcquire(a)
    \/ CleanupClose(a)

NextStop ==
    \/ CtorStart
    \/ CtorWait
    \/ MonStopStep
    \/ \E a \in Apps : AppCallSend(a)
    \/ \E a \in Apps : CleanupSetStop(a)
    \/ \E a \in Apps : AppStopStep(a)

\* Fair scheduling: every thread that can take a step keeps being
\* scheduled, and a thread that asks for a lock which is free again and
\* again gets it.  What a socket call returns is the peer's choice.
StopFairness ==
    /\ WF_vars(MonStopStep)
    /\ SF_vars(MonAcquireQueueLock)
    /\ \A a \in Apps : /\ WF_vars(AppStopStep(a))
                       /\ SF_vars(AppSendAcquire(a))
                       /\ SF_vars(CleanupAcquire(a))

SpecStop == Init /\ [][NextStop]_vars /\ StopFairness

\* ================================================================ claims
IsPrefix(s, t) == Len(s) <= Len(t) /\ \A i \in 1..Len(s) : s[i] = t[i]

MonEnded == mon_pc \in {"exited", "dead"}

\* C1: whenever run() has just set the running flag from a RobotModeData
\* record (it stands before the publish of line 247), the flag is true
\* exactly when robotMode is 0, the robot is connected, really enabled and
\* powered, and neither emergency- nor security-stopped.
C1_RunningTruthTable ==
    mon_pc = "notify" =>
        LET r == dict["RobotModeData"] IN
        running <=> ( /\ r.robotMode = 0
                      /\ \A f \in {"isRealRobotEnabled", "isRobotConnected",
                                   "isPowerOnRobot"} : r[f]
                      /\ \A f \in {"isEmergencyStopped", "isSecurityStopped"} : ~r[f] )

\* C1 witness: a publish with the flag true, and the record says mode 0.
C1_Witness ==
    mon_pc = "notify" /\ running /\ dict["RobotModeData"].robotMode = 0

\* The categories a frame carries, and the last record it carries of one.
FrameCategories(f) ==
    {"SecondaryClientData"}
        \cup ({Category(f[i].ptype) : i \in 1..Len(f)} \ {"unknown"})

LastRecordOf(f, c) ==
    LET last == CHOOSE i \in 1..Len(f) :
                    /\ Category(f[i].ptype) = c
                    /\ \A j \in (i + 1)..Len(f) : Category(f[j].ptype) # c
    IN f[last].body

C3_ConstructorBarrier ==
    ctor_pc \notin {"init", "wait"} => (ctor_pc = "returned" /\ published)

\* C4: the commands written to the socket are a prefix of the commands in
\* the order they were appended to the queue (commands are distinct, so none
\* is written twice and none is written that was not enqueued).
C4_QueueIsFifo == IsPrefix(sent, enqueued)

\* C4 witness: two commands were appended in the reverse order of their
\* sendProgram calls and both were written, in append order.
C4_Witness == sent = <<2, 1>> /\ enqueued = <<2, 1>>

\* C5: the socket is closed only when the monitor thread has ended, a
\* cleanup is past its join only when the thread has ended, and the thread
\* never sends on or receives from a closed socket.
C5_CloseAfterExit ==
    /\ s_secondary = "closed" => MonEnded
    /\ \A a \in Apps : app_pc[a] \in {"cl_lock", "cl_close"} => MonEnded
    /\ stopsReturned > 0 => MonEnded
    /\ ~ioOnClosed

\* C5 witness: a cleanup returned, the socket is closed and the thread left
\* its loop through the stop flag.
C5_Witness ==
    stopsReturned > 0 /\ s_secondary = "closed" /\ mon_pc = "exited"

\* C6: cleanup may be called again, or after the thread ended by an
\* exception; every call returns, and once one has returned the socket has
\* gone from open to closed exactly once, however many calls were made.
C6_StopIdempotent ==
    /\ fdCloses <= 1
    /\ stopsReturned > 0 => (fdCloses = 1 /\ s_secondary = "closed")
    /\ \A a \in Apps :
          (app_pc[a] = "cl_join" /\ MonEnded) => ENABLED CleanupJoin(a)

\* C6 witness: two cleanup calls returned, the thread having ended by an
\* exception before the first.
C6_Witness ==
    stopsReturned >= 2 /\ closeCalls >= 2 /\ mon_pc = "dead"

C8_StopBeforeFailure ==
    w_pc = "raised" =>
        /\ \E i \in 1..Len(enqueued) : enqueued[i] = "stopj"
        /\ w_exc # "none"
        /\ w_propagated = w_exc

\* C8 witness: a wait failed with an exception other than RobotStopped.
C8_Witness ==
    w_pc = "raised" /\ w_propagated = "TypeError" /\ prog_queue = <<"stopj">>

\* C9: a wait is past its stabilization loop (it checks the running flag,
\* reads the joints, evaluates, has returned or has raised) only when at
\* least 3 publishes happened since it was invoked and it consumed 3.
C9_StabilizationFirst ==
    w_pc \notin {"idle", "stab", "stab_blocked"} => (w_pubs >= 3 /\ w_i >= 3)

\* C9 witness: the wait is about to check the running flag for the first time.
C9_Witness == w_pc = "check_running" /\ w_jts = <<>> /\ w_pubs >= 3

\* C10: the joint-space wait has returned only if, in the JointData record
\* it read last, every joint is within joinEpsilon of its target, and the
\* is_program_running() call that followed returned False.
C10_JointReturn ==
    (w_pc = "returned" /\ w_kind = "joint") =>
        /\ w_jts # <<>>
        /\ \A i \in 1..NJoints :
              Abs(w_jts[1][i].q_actual - w_jts[1][i].q_target) <= joinEpsilon
        /\ w_ipr = "false"

\* C10 witness: the wait returned on a record whose last joint is off
\* target by exactly the tolerance.
C10_Witness ==
    /\ w_pc = "returned"
    /\ w_kind = "joint"
    /\ w_jts # <<>>
    /\ Abs(w_jts[1][NJoints].q_actual - w_jts[1][NJoints].q_target) = joinEpsilon

\* The largest difference between a joint and its target in a JointData record.
MaxDiff(jts) ==
    CHOOSE d \in {Abs(jts[i].q_actual - jts[i].q_target) : i \in 1..NJoints} :
        \A i \in 1..NJoints : Abs(jts[i].q_actual - jts[i].q_target) <= d

C12_CartesianReturn ==
    [][ (w_kind = "cart" /\ w_pc' # w_pc) =>
          /\ w_pc' = "returned" =>
                (w_pc \in {"pose_eval", "ipr_read"} /\ w_run = "true")
          /\ w_pc = "pose_eval" =>
                (w_pc' = "returned" <=> w_dist < w_radius)
          /\ (w_pc = "ipr_read" /\ "RobotModeData" \in DOMAIN dict) =>
                (w_pc' = "returned" <=>
                    (w_dist < w_radius \/ ~dict["RobotModeData"].isProgramRunning))
          /\ (w_pc' = "returned" /\ w_radius = 0) => w_ipr' = "false" ]_vars

\* C12 witness: a wait with radius 0 returned off target, on no program
\* running.
C12_Witness ==
    /\ w_kind = "cart" /\ w_pc = "returned"
    /\ w_radius = 0 /\ w_dist > 0 /\ w_ipr = "false"

\* C13: while every frame the controller sends reports a healthy robot, a
\* program running and the target not reached, a wait of either kind has
\* not returned and has not raised, however many publishes it consumed.
C13_NoTimeout ==
    env = "busy" =>
        w_pc \notin {"returned", "raised", "catch", "stopj_lock", "stopj_append"}

\* C13 witness: a Cartesian wait is back at the top of its loop after
\* is_program_running() returned True.
C13_Witness ==
    /\ env = "busy" /\ w_kind = "cart"
    /\ w_pc = "check_running" /\ w_ipr = "true" /\ w_pubs >= StabCycles

\* The offsets of a buffer at which a 5-byte header has type 16 and a
\* declared length in 5..500.
HeaderOffsets(buf) ==
    { k \in 0..(Len(buf) - 5) :
        LET h == get_header(SubSeq(buf, k + 1, k + 5)) IN
        h.ptype = 16 /\ h.psize >= 5 /\ h.psize <= 500 }

FirstOffset(buf) ==
    CHOOSE k \in HeaderOffsets(buf) : \A m \in HeaderOffsets(buf) : k <= m

DeclaredAt(buf, k) == get_header(SubSeq(buf, k + 1, k + 5)).psize

\* C14 as claimed: when, after the invalid leading bytes, the buffer starts
\* with the header of an envelope of declared length L, find_first_packet
\* returns the first L bytes and the remainder whenever at least L bytes are
\* there (also exactly L, with an empty remainder), and None only when
\* fewer than L bytes are there.
C14_FrameWhenComplete ==
    (p_pc = "done" /\ p_fn = "find_first_packet" /\ HeaderOffsets(p_data) # {}) =>
        LET k == FirstOffset(p_data)
            len == DeclaredAt(p_data, k)
        IN  IF Len(p_data) - k >= len
            THEN p_out.value = <<SubSeq(p_data, k + 1, k + len),
                                 SubSeq(p_data, k + len + 1, Len(p_data))>>
            ELSE p_out.value = <<>>

\* C15 as claimed: with up to 4 garbage bytes g in front of a whole
\* envelope e and a remainder r, find_first_packet yields e and r.
C15_ResyncIdempotent ==
    (p_pc = "done" /\ p_fn = "find_first_packet" /\ p_parts.cut = 0
        /\ Len(p_parts.g) <= 4) =>
        p_out.value = <<p_parts.e, p_parts.r>>

\* C16: analyze_header raises ParsingException when the buffer has fewer
\* than 5 bytes, when the declared length is below 5 and when it exceeds the
\* length of the buffer; otherwise it returns the declared length, the type
\* byte, the first length bytes and the rest, and packet + rest is the buffer.
C16_AnalyzeHeader ==
    (p_pc = "done" /\ p_fn = "analyze_header") =>
        IF Len(p_data) < 5 THEN p_out.raised
        ELSE IF Int32(p_data) < 5 \/ Int32(p_data) > Len(p_data) THEN p_out.raised
        ELSE /\ ~p_out.raised
             /\ Len(p_out.value) = 4
             /\ p_out.value[1] = Int32(p_data)
             /\ p_out.value[2] = p_data[5]
             /\ Len(p_out.value[3]) = Int32(p_data)
             /\ p_out.value[3] \o p_out.value[4] = p_data

\* C16 witness: a packet that fills the buffer exactly was split off, the
\* rest is empty.
C16_Witness ==
    /\ p_pc = "done" /\ p_fn = "analyze_header"
    /\ ~p_out.raised /\ p_out.value[4] = <<>> /\ Len(p_out.value[3]) = 16

\* C17 as claimed: with a size field announcing n bytes in front of an
\* array that is not the last field, _get_data yields exactly the next n
\* bytes as the array when the body holds them (and what the later fields
\* need), and raises when fewer than n bytes remain.
C17_ArrayLaw ==
    (p_pc = "done" /\ p_fn = "_get_data") =>
        LET l == LayoutOf(p_fmt)
            n == p_data[l.fixed]
            avail == Len(p_data) - l.fixed
        IN  /\ avail >= n + l.after =>
                /\ ~p_out.raised
                /\ p_out.value[l.arrayName] = SubSeq(p_data, l.fixed + 1, l.fixed + n)
            /\ avail < n => p_out.raised

\* A frame with a sub-packet that analyze_header or _get_data rejects.
Malformed(frame) == \E i \in 1..Len(frame) : ~frame[i].ok

Threads == Apps \cup {"mon", "waiter"}

\* C19: no thread holds the snapshot lock and the queue lock together.  The
\* holder of the queue lock is sending, appending or closing, the holder of
\* the snapshot lock is decoding or copying, and its next step (which
\* releases the lock) waits for nothing; so an enqueue waits at most for a
\* send, an append or a close, never for a decode, and a snapshot read
\* waits at most for a decode or a copy.  While a call is in progress some
\* thread can take a step.
C19_LocksIndependent ==
    /\ \A t \in Threads : ~(dictLock = t /\ prog_queue_lock = t)
    /\ prog_queue_lock = "mon" => (mon_pc = "send" /\ ENABLED MonSend)
    /\ dictLock = "mon" => (mon_pc = "parse" /\ ENABLED MonParse)
    /\ \A a \in Apps :
          /\ prog_queue_lock = a =>
                \/ app_pc[a] = "sp_append" /\ ENABLED AppSendAppend(a)
                \/ app_pc[a] = "cl_close" /\ ENABLED CleanupClose(a)
          /\ dictLock = a => (app_pc[a] = "ga_read" /\ ENABLED AppGetRead(a))
          /\ (app_pc[a] = "sp_lock" /\ prog_queue_lock = Free) => ENABLED AppSendAcquire(a)
          /\ (app_pc[a] = "ga_lock" /\ dictLock = Free) => ENABLED AppGetAcquire(a)
    /\ (\E a \in Apps : app_pc[a] # "idle") => ENABLED Next

\* C19 witness: an application thread appends a command while the monitor
\* decodes, and the other application thread waits for the snapshot.
C19_Witness ==
    /\ mon_pc = "parse" /\ dictLock = "mon"
    /\ \E a, b \in Apps :
          /\ prog_queue_lock = a /\ app_pc[a] = "sp_append"
          /\ app_pc[b] = "ga_lock"

\* C20 as claimed: the wait of the constructor and the publish of run() do
\* not fault: a thread that called wait() leaves it only by returning, after
\* a publish, and run() goes from its publish to the next iteration.
C20_PublishWakes ==
    [][ /\ (ctor_pc = "wait" /\ ctor_pc' # ctor_pc) =>
              (ctor_pc' = "returned" /\ published)
        /\ (mon_pc = "notify" /\ mon_pc' # mon_pc) => mon_pc' = "top" ]_vars

\* The snapshots a whole cycle of the monitor can leave in self._dict: the
\* empty dictionary of __init__, and the complete decode of one frame.
WholeSnapshots ==
    {EmptyDict} \cup { parse(f).allData : f \in { g \in FramesMon : ~parse(g).raised } }

\* C21: getAllData returns a point-in-time copy taken under the snapshot
\* lock: a copy is handed out only by the read step, which holds the lock
\* and returns the snapshot as it stands at that moment; the value returned
\* is always the complete snapshot of a whole cycle, and no later step of
\* the monitor changes it.
C21_SnapshotCopy ==
    /\ [](ga_copy # <<>> => ga_copy[1] \in WholeSnapshots)
    /\ [][ga_copy' # ga_copy =>
             /\ \E a \in Apps : app_pc[a] = "ga_read" /\ dictLock = a
                                 /\ app_pc'[a] = "idle"
             /\ mon_pc' = mon_pc
             /\ ga_copy' = <<dict>>]_vars

\* A copy was returned and a later cycle has replaced the snapshot.
C21_Witness ==
    /\ ga_copy # <<>>
    /\ ga_copy[1] # EmptyDict
    /\ dict # ga_copy[1]
    /\ dict # EmptyDict

C24_InconclusiveCycle ==
    [][(mon_pc = "check" /\ mon_pc' # "check"
            /\ "RobotModeData" \notin DOMAIN dict)
         => /\ running' = running
            /\ mon_pc' = "top"
            /\ w_woken' = w_woken
            /\ w_pubs' = w_pubs
            /\ w_pc' = w_pc
            /\ published' = published]_vars

\* A cycle has ended without RobotModeData while the robot was reported
\* running and a thread was blocked in wait(); the thread is still blocked.
C24_Witness ==
    /\ mon_pc = "top"
    /\ "RobotModeData" \notin DOMAIN dict
    /\ running
    /\ Waiting
    /\ ~w_woken

\* The bytes find_first_packet dropped in front of the frame it returned.
Skipped(buf, out) == Len(buf) - Len(out.value[1]) - Len(out.value[2])

\* C26: when find_first_packet drops k > 0 leading bytes before it returns
\* a frame, its skip count equals k and the garbage-removed event is
\* logged; when k = 0 no such event is logged.
C26_SkipCounted ==
    (p_pc = "done" /\ p_fn = "find_first_packet" /\ p_out.value # <<>>) =>
        /\ p_out.counter = Skipped(p_data, p_out)
        /\ p_out.logged <=> (Skipped(p_data, p_out) > 0)

\* frame and rest are what the claim describes for the buffer buf: frame
\* starts at the smallest offset k whose header has type 16 and a declared
\* length L in [5, 500], is exactly L bytes long, and the k skipped bytes,
\* frame and rest make up buf.
FrameAt(buf, frame, rest) ==
    /\ HeaderOffsets(buf) # {}
    /\ LET k == FirstOffset(buf)
           L == DeclaredAt(buf, k)
       IN  /\ Len(frame) = L
           /\ \A i \in 1..L : k + i <= Len(buf) /\ frame[i] = buf[k + i]
           /\ SubSeq(buf, 1, k) \o frame \o rest = buf

\* The first n chunks of a stream, in one piece.
RECURSIVE Received(_, _)
Received(stream, n) ==
    IF n = 0 THEN <<>> ELSE Head(stream) \o Received(Tail(stream), n - 1)

\* C25: whenever find_first_packet returns a frame, the frame starts at the
\* smallest offset with a valid envelope header, is exactly as long as the
\* header declares, and skipped prefix + frame + remainder is the input;
\* when SecondaryMonitor._get_data returns a frame, self._dataqueue is
\* that remainder of what had been received until then.
C25_FrameExtraction ==
    /\ (p_pc = "done" /\ p_fn = "find_first_packet" /\ p_out.value # <<>>) =>
           FrameAt(p_data, p_out.value[1], p_out.value[2])
    /\ (p_pc = "done" /\ p_fn = "SecondaryMonitor._get_data" /\ ~p_out.raised) =>
           \E n \in 0..Len(StreamOf(p_parts)) :
               FrameAt(p_data \o Received(StreamOf(p_parts), n),
                       p_out.value, p_out.dataqueue)

\* _get_data dropped garbage, had to receive twice and returned the
\* envelope; what arrived behind it stays in the queue.
C25_Witness ==
    /\ p_pc = "done"
    /\ p_fn = "SecondaryMonitor._get_data"
    /\ ~p_out.raised
    /\ p_parts.cut > 0
    /\ Len(p_parts.g) > 0
    /\ p_out.value = p_parts.e
    /\ p_out.dataqueue = p_parts.r
    /\ p_parts.r # <<>>

\* The kinds of Message sub-packet whose robotMessageType has no layout.
UnrecognizedKinds == {"msg4", "msgNeg"}

\* C23: a Message (type 20) whose robotMessageType is outside
\* {0,1,2,3,5,6,7,8} is not fatal and decodes to a record with its raw
\* header fields: when parse has gone through a well-formed frame that
\* holds such a Message it returns a dictionary with an entry whose
\* robotMessageType is the one of the Message, and with the records of the
\* other sub-packets of the frame.
C23_UnrecognizedMessage ==
    (p_fn = "parse" /\ p_pc = "done"
        /\ (\E n \in 1..Len(p_parts.subs) : p_parts.subs[n] \in UnrecognizedKinds)
        /\ (\A n \in 1..Len(p_parts.subs) :
               p_parts.subs[n] \in UnrecognizedKinds \cup {"mode", "text"})) =>
        /\ ~p_out.raised
        /\ \A i \in 1..Len(p_parts.subs) :
              /\ p_parts.subs[i] = "mode" => "RobotModeData" \in DOMAIN p_out.value
              /\ p_parts.subs[i] = "text" => "messageText" \in DOMAIN p_out.value
              /\ p_parts.subs[i] \in UnrecognizedKinds =>
                    \E key \in DOMAIN p_out.value :
                        /\ "robotMessageType" \in DOMAIN p_out.value[key]
                        /\ p_out.value[key]["robotMessageType"]
                               = unpack("b", <<SubBytes(p_parts.subs[i])[15]>>)

\* C29: parse terminates on every frame, returning a dictionary or raising
\* ParsingException: an iteration that does not raise leaves at least 5
\* bytes fewer to parse, parse ends, and run() then releases the snapshot
\* lock it held during the call.
C29_ParseTerminates ==
    /\ [][(p_fn = "parse" /\ p_pc = "call" /\ p_pc' = "call" /\ p_data # <<>>)
             => Len(p_data') + 5 <= Len(p_data)]_vars
    /\ [][(p_fn = "parse" /\ p_pc = "call" /\ p_pc' # "call")
             => \/ (p_pc' = "raise" /\ p_out'.raised)
                \/ (p_pc' = "return" /\ ~p_out'.raised /\ p_data = <<>>)]_vars
    /\ (p_fn = "parse" /\ dictLock = "mon") ~> (p_pc = "done" /\ dictLock = Free)

\* parse went through an envelope and two sub-packets and returned; the
\* lock is free again.
C29_Witness ==
    /\ p_fn = "parse"
    /\ p_pc = "done"
    /\ ~p_out.raised
    /\ p_parts.subs = <<"mode", "text">>
    /\ {"SecondaryClientData", "RobotModeData", "messageText"} \subseteq DOMAIN dict
    /\ dictLock = Free

\* ---------------------------------------------------------------------
\* C27: the completion criterion of a wait is the one of the primitive that
\* issued it, for a URRobot and for a Robot alike: the wait of a movej runs
\* the joint-space test, and the wait of a Cartesian move (movel, movep,
\* movec, movels) runs the Cartesian test against the pose it was given.
JointCriterion == {"jts_enter", "jts_blocked", "jts_lock", "jts_read", "eval"}
CartesianCriterion ==
    {"pose_enter", "pose_blocked", "pose_lock", "pose_read", "pose_eval"}

C27_CriterionByPrimitive ==
    /\ w_pc \in JointCriterion => w_prim = "movej"
    /\ w_pc \in CartesianCriterion => w_prim \in Primitives \ {"movej"}

\* ---------------------------------------------------------------------
\* C28: stop() always terminates.  Under fair scheduling, with every
\* socket call returning, a cleanup() that has set _trystop -- while a
\* command is being sent, or while the thread is in _get_data and no
\* further envelope ever becomes complete -- sees the thread end and
\* returns.
C28_StopTerminates ==
    \A a \in Apps : (app_pc[a] = "cl_join") ~> (app_pc[a] = "idle")

====
